---- MODULE Spec2Model ----
(***************************************************************************)
(* Model of the sales-data analyst: the natural-language-to-SQL engine     *)
(* (src/components/ChartRenderer.tsx), the result visualisation selector   *)
(* (src/lib/db.ts) and the visualisation decision and final chart          *)
(* normalisation pass of the request handler (src/app/api/finance/route.ts)*)
(*                                                                         *)
(* JavaScript strings are TLA+ strings; the text operations the code uses  *)
(* (includes, startsWith, toLowerCase, trim, replace, the regular          *)
(* expressions) are computed on the characters.  A JavaScript value is a   *)
(* record [t, n, s]: its typeof tag, its number and its text.  A JavaScript*)
(* object is a sequence of [k, v] entries in insertion order.              *)
(***************************************************************************)
EXTENDS Integers, Sequences, FiniteSets, TLC

----------------------------------------------------------------------------
(* String operations                                                       *)

Ch(s, i) == SubSeq(s, i, i)

Digits == {"0", "1", "2", "3", "4", "5", "6", "7", "8", "9"}

LowerLetters == {"a", "b", "c", "d", "e", "f", "g", "h", "i", "j", "k", "l", "m",
                 "n", "o", "p", "q", "r", "s", "t", "u", "v", "w", "x", "y", "z"}

UpperLetters == {"A", "B", "C", "D", "E", "F", "G", "H", "I", "J", "K", "L", "M",
                 "N", "O", "P", "Q", "R", "S", "T", "U", "V", "W", "X", "Y", "Z"}

LowerOf(c) ==
    CASE c = "A" -> "a" [] c = "B" -> "b" [] c = "C" -> "c" [] c = "D" -> "d"
      [] c = "E" -> "e" [] c = "F" -> "f" [] c = "G" -> "g" [] c = "H" -> "h"
      [] c = "I" -> "i" [] c = "J" -> "j" [] c = "K" -> "k" [] c = "L" -> "l"
      [] c = "M" -> "m" [] c = "N" -> "n" [] c = "O" -> "o" [] c = "P" -> "p"
      [] c = "Q" -> "q" [] c = "R" -> "r" [] c = "S" -> "s" [] c = "T" -> "t"
      [] c = "U" -> "u" [] c = "V" -> "v" [] c = "W" -> "w" [] c = "X" -> "x"
      [] c = "Y" -> "y" [] c = "Z" -> "z" [] OTHER -> c

UpperOf(c) ==
    CASE c = "a" -> "A" [] c = "b" -> "B" [] c = "c" -> "C" [] c = "d" -> "D"
      [] c = "e" -> "E" [] c = "f" -> "F" [] c = "g" -> "G" [] c = "h" -> "H"
      [] c = "i" -> "I" [] c = "j" -> "J" [] c = "k" -> "K" [] c = "l" -> "L"
      [] c = "m" -> "M" [] c = "n" -> "N" [] c = "o" -> "O" [] c = "p" -> "P"
      [] c = "q" -> "Q" [] c = "r" -> "R" [] c = "s" -> "S" [] c = "t" -> "T"
      [] c = "u" -> "U" [] c = "v" -> "V" [] c = "w" -> "W" [] c = "x" -> "X"
      [] c = "y" -> "Y" [] c = "z" -> "Z" [] OTHER -> c

\* \w of the regular expressions
IsWordChar(c) == c \in LowerLetters \cup UpperLetters \cup Digits \cup {"_"}

\* \s of the regular expressions
IsSpace(c) == c = " "

\* every character in lower case, the text taken by halves
RECURSIVE ToLowerCase(_)
ToLowerCase(s) ==
    IF Len(s) = 0 THEN ""
    ELSE IF Len(s) = 1 THEN LowerOf(s)
    ELSE ToLowerCase(SubSeq(s, 1, Len(s) \div 2))
         \o ToLowerCase(SubSeq(s, (Len(s) \div 2) + 1, Len(s)))

\* String.prototype.includes
Includes(q, p) ==
    \E i \in 1..(Len(q) - Len(p) + 1) : SubSeq(q, i, i + Len(p) - 1) = p

\* the literal p stands in q at position i
LitAt(q, i, p) == i >= 1 /\ i + Len(p) - 1 <= Len(q) /\ SubSeq(q, i, i + Len(p) - 1) = p

StartsWith(q, p) == LitAt(q, 1, p)

\* String.prototype.trim
RECURSIVE TrimStart(_)
TrimStart(s) ==
    IF Len(s) > 0 /\ IsSpace(Ch(s, 1)) THEN TrimStart(SubSeq(s, 2, Len(s))) ELSE s

RECURSIVE TrimEnd(_)
TrimEnd(s) ==
    IF Len(s) > 0 /\ IsSpace(Ch(s, Len(s))) THEN TrimEnd(SubSeq(s, 1, Len(s) - 1)) ELSE s

Trim(s) == TrimEnd(TrimStart(s))

\* s.replace(/c/g, d) for single characters c and d
RECURSIVE ReplaceAll(_, _, _)
ReplaceAll(s, c, d) ==
    IF Len(s) = 0 THEN ""
    ELSE IF Len(s) = 1 THEN (IF s = c THEN d ELSE s)
    ELSE ReplaceAll(SubSeq(s, 1, Len(s) \div 2), c, d)
         \o ReplaceAll(SubSeq(s, (Len(s) \div 2) + 1, Len(s)), c, d)

Min(S) == CHOOSE x \in S : \A y \in S : x <= y

Max(S) == CHOOSE x \in S : \A y \in S : x >= y

\* first position at or after i that does not hold a character of the class
RunEnd(q, i, cls) ==
    IF i > Len(q) THEN i
    ELSE Min({j \in i..(Len(q) + 1) : j > Len(q) \/ Ch(q, j) \notin cls})

SpaceClass == {" "}

\* position after \s+ matched greedily from i, 0 when no white space stands at i
AfterSpaces(q, i) == IF i <= Len(q) /\ IsSpace(Ch(q, i)) THEN RunEnd(q, i, SpaceClass) ELSE 0

DigitVal(c) ==
    CASE c = "0" -> 0 [] c = "1" -> 1 [] c = "2" -> 2 [] c = "3" -> 3 [] c = "4" -> 4
      [] c = "5" -> 5 [] c = "6" -> 6 [] c = "7" -> 7 [] c = "8" -> 8 [] c = "9" -> 9
      [] OTHER -> 0

\* parseInt(s, 10) of a string of digits
RECURSIVE ParseInt(_)
ParseInt(s) ==
    IF Len(s) = 0 THEN 0
    ELSE 10 * ParseInt(SubSeq(s, 1, Len(s) - 1)) + DigitVal(Ch(s, Len(s)))

----------------------------------------------------------------------------
(* JavaScript values and objects                                           *)

Num(n) == [t |-> "number", n |-> n, s |-> ""]

Str(s) == [t |-> "string", n |-> 0, s |-> s]

Undefined == [t |-> "undefined", n |-> 0, s |-> ""]

\* a nested object kept as one value; s names its content
ObjVal(s) == [t |-> "object", n |-> 0, s |-> s]

\* null
Null == [t |-> "null", n |-> 0, s |-> ""]

\* typeof v
TypeOf(v) == IF v.t = "null" THEN "object" ELSE v.t

\* truthiness of a value: undefined, null, "", 0 and NaN are falsy
Truthy(v) ==
    CASE v.t = "undefined" -> FALSE
      [] v.t = "null" -> FALSE
      [] v.t = "string" -> v.s # ""
      [] v.t = "number" -> ~(v.n = 0 /\ v.s = "") /\ v.s # "NaN"
      [] OTHER -> TRUE

\* String(v)
StringOf(v) ==
    CASE v.t = "string" -> v.s
      [] v.t = "number" -> (IF v.s = "NaN" THEN "NaN"
                            ELSE IF v.s = "" THEN ToString(v.n)
                            ELSE ToString(v.n) \o "." \o v.s)
      [] v.t = "undefined" -> "undefined"
      [] v.t = "null" -> "null"
      [] OTHER -> "[object Object]"

\* Object.keys(o)
Keys(o) == [i \in 1..Len(o) |-> o[i].k]

\* key in o
HasKey(o, key) == \E i \in 1..Len(o) : o[i].k = key

\* o[key]
Get(o, key) ==
    IF HasKey(o, key) THEN o[CHOOSE i \in 1..Len(o) : o[i].k = key].v ELSE Undefined

\* o[key] = v : an existing key keeps its place, a new key is appended
Put(o, key, v) ==
    IF HasKey(o, key)
    THEN [i \in 1..Len(o) |-> IF o[i].k = key THEN [k |-> key, v |-> v] ELSE o[i]]
    ELSE Append(o, [k |-> key, v |-> v])

\* array.join(sep) of a sequence of strings
RECURSIVE Join(_, _)
Join(seq, sep) ==
    IF Len(seq) = 0 THEN ""
    ELSE IF Len(seq) = 1 THEN seq[1]
    ELSE seq[1] \o sep \o Join(Tail(seq), sep)

\* number.toString().padStart(2, '0') as the ISO date text writes month and day
Pad2(n) == IF n < 10 THEN "0" \o ToString(n) ELSE ToString(n)

----------------------------------------------------------------------------
(* Schema catalog                                                          *)

\* lowerName and lowerDescription are col.name.toLowerCase() and
\* col.description.toLowerCase(), which the code recomputes at every use
Col(name, type, description) ==
    [name |-> name, dbName |-> name, type |-> type, description |-> description,
     lowerName |-> ToLowerCase(name), lowerDescription |-> ToLowerCase(description)]

salesDataSchema ==
    [tableName |-> "sales_data", dbTableName |-> "sales_data",
     description |-> "List of sales transactions",
     columns |-> <<
       Col("key", "int", "Unique identifier of the transaction"),
       Col("country", "nvarchar", "Country of the store"),
       Col("region", "nvarchar", "Region of the store"),
       Col("city", "nvarchar", "City of the store"),
       Col("store_id", "int", "Unique identifier of the store"),
       Col("store_name", "nvarchar", "Name of the store"),
       Col("sales_order_number", "nvarchar", "Sales order unique identifier"),
       Col("sales_date", "date", "Date of the sales order"),
       Col("product_name", "nvarchar", "Name of the product sold"),
       Col("quantity", "int", "Quantity of the product sold"),
       Col("unit_price", "decimal", "Price of the product"),
       Col("total_product_cost", "decimal", "Total cost of the product"),
       Col("material_cost", "decimal", "Cost of the materials used to make the product"),
       Col("shipping_cost", "decimal", "Cost of shipping the product"),
       Col("total_cost", "decimal", "Total cost of the product"),
       Col("sales_type", "nvarchar", "Type of sales (instore or delivery)"),
       Col("delivery_fee", "decimal", "Fee for the delivery of the product"),
       Col("delivery_duration_mins", "int", "Amount of time it took to deliver the product"),
       Col("discount_code", "nvarchar", "Code of the discount applied to the product"),
       Col("discount_percent", "int", "Percentage of discount applied to the product"),
       Col("delivery_plate", "nvarchar", "Plate number of the delivery vehicle") >>]

productDesignSchema ==
    [tableName |-> "product_design",
     dbTableName |-> "unique_products_with_materials_masterlist",
     description |-> "Information on materials used to produce products and associated costs",
     columns |-> <<
       Col("Country", "nvarchar", "Country where the product is produced and sold"),
       Col("Region", "nvarchar", "Region where the product is produced and sold"),
       Col("City", "nvarchar", "City where the product is produced and sold"),
       Col("Product_Name", "nvarchar", "Name of the product"),
       Col("Product_Price", "decimal", "Selling price of the product"),
       Col("Material_Code", "nvarchar", "Code of the material used to make the product"),
       Col("Material_Quantity", "int", "Quantity of the material used to make the product"),
       Col("Material_Unit_Cost", "decimal", "Unit cost of the material used to make the product"),
       Col("Material_Shipping_Cost", "decimal", "Shipping cost of the material used to make the product"),
       Col("total_material_cost", "decimal", "Total cost of the material used to make the product"),
       Col("total_material_shipping_cost", "decimal", "Total shipping cost of the material used to make the product") >>]

vehicleMasterSchema ==
    [tableName |-> "vehicle_master", dbTableName |-> "vehicle_master",
     description |-> "Information on vehicles available for delivery of products",
     columns |-> <<
       Col("Country", "nvarchar", "Country where the vehicle is used"),
       Col("Region", "nvarchar", "Region where the vehicle is used"),
       Col("City", "nvarchar", "City where the vehicle is used"),
       Col("Vehicle_Plate", "nvarchar", "Plate number of the vehicle used to deliver the product") >>]

schemas ==
    [sales_data |-> salesDataSchema,
     product_design |-> productDesignSchema,
     vehicle_master |-> vehicleMasterSchema]

\* col.type === 'decimal' || col.type === 'int'
IsNumericType(col) == col.type = "decimal" \/ col.type = "int"

\* schema.columns.find(c => c.name.toLowerCase() === lname), as a sequence of
\* no or one column
FindColumn(schema, lname) ==
    LET hits == {i \in 1..Len(schema.columns) : schema.columns[i].lowerName = lname}
    IN IF hits = {} THEN <<>> ELSE <<schema.columns[Min(hits)]>>

\* the query names the column or quotes its description
Mentions(query, col) ==
    \/ Includes(query, col.lowerName)
    \/ Includes(query, col.lowerDescription)

----------------------------------------------------------------------------
(* extractTimeFilters                                                      *)

Filter(field, operator, value) == [field |-> field, operator |-> operator, value |-> value]

IsDigitAt(q, i) == i >= 1 /\ i <= Len(q) /\ Ch(q, i) \in Digits

IsDateSepAt(q, i) == i >= 1 /\ i <= Len(q) /\ Ch(q, i) \in {"-", "/"}

\* \b between position i - 1 and i, one of the two being a word character
WordBoundaryBefore(q, i) ==
    LET left == i > 1 /\ i - 1 <= Len(q) /\ IsWordChar(Ch(q, i - 1))
        right == i >= 1 /\ i <= Len(q) /\ IsWordChar(Ch(q, i))
    IN left # right

\* length of the match of /\b\d{4}[-\/]\d{1,2}[-\/]\d{1,2}\b/ at position i, 0 for none
DateMatchLen(q, i) ==
    LET fits == {md \in {<<2, 2>>, <<2, 1>>, <<1, 2>>, <<1, 1>>} :
                   /\ WordBoundaryBefore(q, i)
                   /\ \A j \in i..(i + 3) : IsDigitAt(q, j)
                   /\ IsDateSepAt(q, i + 4)
                   /\ \A j \in (i + 5)..(i + 4 + md[1]) : IsDigitAt(q, j)
                   /\ IsDateSepAt(q, i + 5 + md[1])
                   /\ \A j \in (i + 6 + md[1])..(i + 5 + md[1] + md[2]) : IsDigitAt(q, j)
                   /\ WordBoundaryBefore(q, i + 6 + md[1] + md[2])}
    IN IF ~IsDigitAt(q, i) \/ ~IsDateSepAt(q, i + 4) \/ fits = {} THEN 0
       ELSE LET md == CHOOSE x \in fits :
                        \A y \in fits : x[1] > y[1] \/ (x[1] = y[1] /\ x[2] >= y[2])
            IN 6 + md[1] + md[2]

\* query.match(dateRegex) with the g flag: every match, left to right
RECURSIVE MatchDates(_, _)
MatchDates(q, from) ==
    LET starts == {i \in from..Len(q) : DateMatchLen(q, i) > 0}
    IN IF starts = {} THEN <<>>
       ELSE LET i == Min(starts)
                n == DateMatchLen(q, i)
            IN <<SubSeq(q, i, i + n - 1)>> \o MatchDates(q, i + n)

IsLeapYear(y) == (y % 4 = 0 /\ y % 100 # 0) \/ y % 400 = 0

DaysInMonth(y, m) ==
    IF m = 2 THEN (IF IsLeapYear(y) THEN 29 ELSE 28)
    ELSE IF m \in {4, 6, 9, 11} THEN 30 ELSE 31

\* new Date(year, month - 1, day) for day 1 or day 0 of a month 0..12 of the year,
\* normalised to a calendar date [y, m, d] of local time
LocalDate(year, month, day) ==
    LET y1 == IF month < 1 THEN year - 1 ELSE year
        m1 == IF month < 1 THEN 12 ELSE month
    IN IF day >= 1 THEN [y |-> y1, m |-> m1, d |-> day]
       ELSE IF m1 = 1 THEN [y |-> y1 - 1, m |-> 12, d |-> 31]
       ELSE [y |-> y1, m |-> m1 - 1, d |-> DaysInMonth(y1, m1 - 1)]

\* date.toISOString().split('T')[0] of a local midnight: the UTC day, which is the
\* day before when the local zone is ahead of UTC
IsoDay(date, zoneAhead) ==
    LET utc == IF zoneAhead THEN LocalDate(date.y, date.m, date.d - 1) ELSE date
    IN ToString(utc.y) \o "-" \o Pad2(utc.m) \o "-" \o Pad2(utc.d)

\* today is [year, month] of the wall clock, zoneAhead the sign of the zone offset
\* extractTimeFilters that keeps the first literal date only
extractTimeFiltersFirstDate(query, mainTable, today, zoneAhead) ==
    LET dates == MatchDates(query, 1)
    IN IF Len(dates) = 0 THEN <<>>
       ELSE <<Filter(mainTable \o ".sales_date", ">=", Str(ReplaceAll(dates[1], "/", "-")))>>

extractTimeFilters(query, mainTable, today, zoneAhead) ==
    LET field == mainTable \o ".sales_date"
        dates == MatchDates(query, 1)
        formattedDates == [i \in 1..Len(dates) |-> ReplaceAll(dates[i], "/", "-")]
        literal ==
            IF Len(formattedDates) = 0 THEN <<>>
            ELSE IF Len(formattedDates) = 1
            THEN <<Filter(field, ">=", Str(formattedDates[1]))>>
            ELSE <<Filter(field, ">=", Str(formattedDates[1])),
                   Filter(field, "<=", Str(formattedDates[2]))>>
        relative ==
            IF Includes(query, "last month") \/ Includes(query, "previous month")
            THEN <<Filter(field, ">=",
                          Str(IsoDay(LocalDate(today.year, today.month - 1, 1), zoneAhead))),
                   Filter(field, "<=",
                          Str(IsoDay(LocalDate(today.year, today.month, 0), zoneAhead)))>>
            ELSE IF Includes(query, "this month") \/ Includes(query, "current month")
            THEN <<Filter(field, ">=",
                          Str(IsoDay(LocalDate(today.year, today.month, 1), zoneAhead)))>>
            ELSE IF Includes(query, "last year") \/ Includes(query, "previous year")
            THEN <<Filter(field, ">=", Str(ToString(today.year - 1) \o "-01-01")),
                   Filter(field, "<=", Str(ToString(today.year - 1) \o "-12-31"))>>
            ELSE IF Includes(query, "this year") \/ Includes(query, "current year")
            THEN <<Filter(field, ">=", Str(ToString(today.year) \o "-01-01"))>>
            ELSE <<>>
    IN literal \o relative

----------------------------------------------------------------------------
(* determineColumns                                                        *)

SelCol(tableName, columnName, displayName, aggregate) ==
    [tableName |-> tableName, columnName |-> columnName,
     displayName |-> displayName, aggregate |-> aggregate]

\* columns.some(c => c.aggregate === fn)
HasAggregate(columns, fn) == \E i \in 1..Len(columns) : columns[i].aggregate = fn

\* columns.some(col => col.aggregate)
HasAggregates(columns) == \E i \in 1..Len(columns) : columns[i].aggregate # ""

\* AggregateMentioned without the test of the column type
AggregateMentionedAnyType(query, mainTable, fn, prefix) ==
    LET cols == schemas[mainTable].columns
        hit == SelectSeq(cols, LAMBDA col : Mentions(query, col))
    IN [i \in 1..Len(hit) |->
          SelCol(mainTable, hit[i].dbName, prefix \o hit[i].name, fn)]

\* the loop over schema.columns that adds fn(col) for every numeric column the
\* query mentions
AggregateMentioned(query, mainTable, fn, prefix) ==
    LET cols == schemas[mainTable].columns
        hit == SelectSeq(cols, LAMBDA col : IsNumericType(col) /\ Mentions(query, col))
    IN [i \in 1..Len(hit) |->
          SelCol(mainTable, hit[i].dbName, prefix \o hit[i].name, fn)]

\* the first column of the default list that the schema has, aggregated
RECURSIVE FirstDefault(_, _, _, _)
FirstDefault(mainTable, names, fn, prefix) ==
    IF Len(names) = 0 THEN <<>>
    ELSE LET col == FindColumn(schemas[mainTable], Head(names))
         IN IF Len(col) > 0
            THEN <<SelCol(mainTable, col[1].dbName, prefix \o col[1].name, fn)>>
            ELSE FirstDefault(mainTable, Tail(names), fn, prefix)

\* every column of the default list that the schema has, plain
RECURSIVE DefaultProjection(_, _)
DefaultProjection(mainTable, names) ==
    IF Len(names) = 0 THEN <<>>
    ELSE LET col == FindColumn(schemas[mainTable], ToLowerCase(Head(names)))
         IN (IF Len(col) > 0
             THEN <<SelCol(mainTable, col[1].dbName, col[1].name, "")>>
             ELSE <<>>) \o DefaultProjection(mainTable, Tail(names))

NotTechnical(col) == col.name # "created_at" /\ col.name # "updated_at"

\* the query asks for a total
AsksTotal(simplifiedQuery) ==
    Includes(simplifiedQuery, "total") \/ Includes(simplifiedQuery, "sum")

\* the query asks for an average
AsksAverage(simplifiedQuery) ==
    Includes(simplifiedQuery, "average") \/ Includes(simplifiedQuery, "avg")

\* the steps of determineColumns, each from the columns selected before it
CountColumns(simplifiedQuery, mainTable) ==
    IF \/ Includes(simplifiedQuery, "how many")
       \/ Includes(simplifiedQuery, "count")
       \/ Includes(simplifiedQuery, "number of")
    THEN <<SelCol(mainTable, "COUNT(*)", "record_count", "COUNT")>>
    ELSE <<>>

SumColumns(simplifiedQuery, mainTable, columns) ==
    IF AsksTotal(simplifiedQuery)
    THEN columns \o AggregateMentioned(simplifiedQuery, mainTable, "SUM", "total_")
    ELSE columns

\* DefaultSum that adds the default whether or not a SUM was selected
DefaultSumAlways(simplifiedQuery, mainTable, columns) ==
    IF AsksTotal(simplifiedQuery) /\ mainTable = "sales_data"
    THEN columns \o FirstDefault(mainTable,
                        IF Includes(simplifiedQuery, "sales") THEN <<"quantity">>
                        ELSE <<"quantity", "total_cost", "total_product_cost">>,
                        "SUM", "total_")
    ELSE columns

DefaultSum(simplifiedQuery, mainTable, columns) ==
    IF AsksTotal(simplifiedQuery) /\ ~HasAggregate(columns, "SUM") /\ mainTable = "sales_data"
    THEN columns \o FirstDefault(mainTable,
                        IF Includes(simplifiedQuery, "sales") THEN <<"quantity">>
                        ELSE <<"quantity", "total_cost", "total_product_cost">>,
                        "SUM", "total_")
    ELSE columns

AverageColumns(simplifiedQuery, mainTable, columns) ==
    IF AsksAverage(simplifiedQuery)
    THEN columns \o AggregateMentioned(simplifiedQuery, mainTable, "AVG", "avg_")
    ELSE columns

DefaultAverage(simplifiedQuery, mainTable, columns) ==
    IF /\ AsksAverage(simplifiedQuery) /\ ~HasAggregate(columns, "AVG")
       /\ mainTable = "sales_data"
    THEN columns \o FirstDefault(mainTable,
                        <<"unit_price", "total_cost", "delivery_duration_mins">>,
                        "AVG", "avg_")
    ELSE columns

NamedColumns(simplifiedQuery, mainTable, columns) ==
    LET named ==
            SelectSeq(schemas[mainTable].columns, LAMBDA col :
                /\ NotTechnical(col)
                /\ Mentions(simplifiedQuery, col)
                /\ ~\E i \in 1..Len(columns) :
                       columns[i].columnName = col.dbName /\ columns[i].aggregate # "")
    IN columns \o [i \in 1..Len(named) |->
                     SelCol(mainTable, named[i].dbName, named[i].name, "")]

JoinedColumns(simplifiedQuery, joinTable, columns) ==
    IF joinTable = "" THEN columns
    ELSE LET joined == SelectSeq(schemas[joinTable].columns, LAMBDA col :
                           NotTechnical(col) /\ Mentions(simplifiedQuery, col))
         IN columns \o [i \in 1..Len(joined) |->
                          SelCol(joinTable, joined[i].dbName,
                                 joinTable \o "_" \o joined[i].name, "")]

DefaultColumns(mainTable, columns) ==
    IF Len(columns) > 0 THEN columns
    ELSE IF mainTable = "sales_data"
    THEN DefaultProjection(mainTable,
             <<"sales_date", "product_name", "quantity", "unit_price", "total_cost">>)
    ELSE LET all == SelectSeq(schemas[mainTable].columns, NotTechnical)
         IN [i \in 1..Len(all) |-> SelCol(mainTable, all[i].dbName, all[i].name, "")]

\* the steps applied to the lower-case query
ColumnsOf(q, mainTable, joinTable) ==
    DefaultColumns(mainTable,
        JoinedColumns(q, joinTable,
            NamedColumns(q, mainTable,
                DefaultAverage(q, mainTable,
                    AverageColumns(q, mainTable,
                        DefaultSum(q, mainTable,
                            SumColumns(q, mainTable, CountColumns(q, mainTable))))))))

determineColumns(query, mainTable, joinTable) ==
    ColumnsOf(ToLowerCase(query), mainTable, joinTable)

----------------------------------------------------------------------------
(* determineGrouping                                                       *)

MonthExpr(mainTable) == "FORMAT(" \o mainTable \o ".sales_date, 'yyyy-MM')"

YearExpr(mainTable) == "YEAR(" \o mainTable \o ".sales_date)"

QuarterExpr(mainTable) ==
    "CONCAT(YEAR(" \o mainTable \o ".sales_date), '-Q', DATEPART(QUARTER, "
        \o mainTable \o ".sales_date))"

WeekExpr(mainTable) ==
    "CONCAT(YEAR(" \o mainTable \o ".sales_date), '-', DATEPART(WEEK, "
        \o mainTable \o ".sales_date))"

DayExpr(mainTable) == "FORMAT(" \o mainTable \o ".sales_date, 'yyyy-MM-dd')"

determineGrouping(query, selectedColumns, mainTable) ==
    LET simplifiedQuery == ToLowerCase(query)
        Has(p) == Includes(simplifiedQuery, p)
        explicit ==
            IF Has("by country") THEN <<mainTable \o ".country">>
            ELSE IF Has("by region") THEN <<mainTable \o ".region">>
            ELSE IF Has("by city") THEN <<mainTable \o ".city">>
            ELSE IF Has("by store") THEN <<mainTable \o ".store_name">>
            ELSE IF Has("by product") \/ Has("by product_name") \/ Has("sales by product")
                 THEN <<mainTable \o ".product_name">>
            ELSE IF Has("by month") \/ Has("monthly") THEN <<MonthExpr(mainTable)>>
            ELSE IF Has("by year") \/ Has("yearly") THEN <<YearExpr(mainTable)>>
            ELSE IF Has("by quarter") \/ Has("quarterly") THEN <<QuarterExpr(mainTable)>>
            ELSE IF Has("by week") \/ Has("weekly") THEN <<WeekExpr(mainTable)>>
            ELSE IF Has("by day") \/ Has("daily") THEN <<DayExpr(mainTable)>>
            ELSE <<>>
        plain == SelectSeq(selectedColumns, LAMBDA col : col.aggregate = "")
    IN IF ~HasAggregates(selectedColumns) THEN <<>>
       ELSE IF Len(explicit) > 0 THEN explicit
       ELSE IF Has("trend") \/ Has("over time") \/ Has("time series")
       THEN <<MonthExpr(mainTable)>>
       ELSE [i \in 1..Len(plain) |-> plain[i].tableName \o "." \o plain[i].columnName]

----------------------------------------------------------------------------
(* Regular expressions of determineFilters, determineLimit and the         *)
(* visualisation decision.  A match is searched from the left, and the     *)
(* capture of the leftmost match is returned.                              *)

NoMatch == "<no match>"

\* positions after one of the literals, read at one of the positions
AfterLits(q, P, lits) ==
    UNION {{p + Len(l) : l \in {x \in lits : LitAt(q, p, x)}} : p \in P}

\* positions after \s+, read at one of the positions
AfterSpacesSet(q, P) == {AfterSpaces(q, p) : p \in P} \ {0}

WordOrSpaceClass == LowerLetters \cup UpperLetters \cup Digits \cup {"_", " "}

DigitOrDotClass == Digits \cup {"."}

LetterOrSpaceClass == LowerLetters \cup UpperLetters \cup {" "}

\* capture of \s+([\w\s]+) read at p, before value.trim()
TailWords(q, p) ==
    IF p <= Len(q) /\ IsSpace(Ch(q, p)) /\ RunEnd(q, p, WordOrSpaceClass) - p >= 2
    THEN SubSeq(q, p + 1, RunEnd(q, p, WordOrSpaceClass) - 1)
    ELSE NoMatch

\* capture of \s+([\d.]+) read at p
TailNumber(q, p) ==
    LET a == AfterSpaces(q, p)
    IN IF a > 0 /\ RunEnd(q, a, DigitOrDotClass) > a
       THEN SubSeq(q, a, RunEnd(q, a, DigitOrDotClass) - 1)
       ELSE NoMatch

\* capture of \s+(\d+) read at p
TailDigits(q, p) ==
    LET a == AfterSpaces(q, p)
    IN IF a > 0 /\ RunEnd(q, a, Digits) > a
       THEN SubSeq(q, a, RunEnd(q, a, Digits) - 1)
       ELSE NoMatch

\* the capture at the leftmost start among the pairs <<start, capture>>
Leftmost(found) ==
    IF found = {} THEN NoMatch
    ELSE LET s == Min({f[1] : f \in found})
         IN (CHOOSE f \in found : f[1] = s)[2]

\* (where|with|for|if)\s+<col>\s+(is|=|equals?)\s+([\w\s]+)
EqualsMatch(q, colLower) ==
    LET Ends(s) ==
            AfterLits(q, AfterSpacesSet(q,
                AfterLits(q, AfterSpacesSet(q,
                    AfterLits(q, {s}, {"where", "with", "for", "if"})), {colLower})),
                {"is", "=", "equal", "equals"})
        starts == {s \in 1..Len(q) : \E k \in {"where", "with", "for", "if"} : LitAt(q, s, k)}
        found == UNION {{<<s, TailWords(q, e)>> : e \in Ends(s)} : s \in starts}
    IN Leftmost({f \in found : f[2] # NoMatch})

\* <col>\s+(contains|like|has)\s+([\w\s]+)
ContainsMatch(q, colLower) ==
    LET Ends(s) ==
            AfterLits(q, AfterSpacesSet(q, AfterLits(q, {s}, {colLower})),
                {"contains", "like", "has"})
        starts == {s \in 1..Len(q) : LitAt(q, s, colLower)}
        found == UNION {{<<s, TailWords(q, e)>> : e \in Ends(s)} : s \in starts}
    IN Leftmost({f \in found : f[2] # NoMatch})

\* <col>\s+(<op>|...)\s+([\d.]+)
CompareMatch(q, colLower, ops) ==
    LET Ends(s) == AfterLits(q, AfterSpacesSet(q, AfterLits(q, {s}, {colLower})), ops)
        starts == {s \in 1..Len(q) : LitAt(q, s, colLower)}
        found == UNION {{<<s, TailNumber(q, e)>> : e \in Ends(s)} : s \in starts}
    IN Leftmost({f \in found : f[2] # NoMatch})

\* /(in|for|at|from)\s+([a-z\s]+)(country|region|city)/i : the pair
\* <<location text before trim, location noun>>
LocationMatch(q) ==
    LET Nouns == {"country", "region", "city"}
        NounAt(p) == CHOOSE n \in Nouns : LitAt(q, p, n)
        \* e is the position after the keyword; the greedy group gives back
        \* characters until a noun follows, so the last noun of the run is taken
        NounStarts(e) ==
            IF e <= Len(q) /\ IsSpace(Ch(q, e))
            THEN {p \in (e + 2)..(RunEnd(q, e, LetterOrSpaceClass) - 1) :
                     \E n \in Nouns : LitAt(q, p, n)}
            ELSE {}
        found ==
            UNION {{<<s, <<SubSeq(q, e + 1, Max(NounStarts(e)) - 1), NounAt(Max(NounStarts(e)))>> >> :
                      e \in {x \in AfterLits(q, {s}, {"in", "for", "at", "from"}) :
                               NounStarts(x) # {}}} :
                   s \in {x \in 1..Len(q) :
                             \E k \in {"in", "for", "at", "from"} : LitAt(q, x, k)}}
    IN IF found = {} THEN <<NoMatch, NoMatch>>
       ELSE (CHOOSE f \in found : f[1] = Min({g[1] : g \in found}))[2]

\* trailing zeros of a fraction are not part of the number
RECURSIVE StripZeros(_)
StripZeros(s) ==
    IF Len(s) > 0 /\ Ch(s, Len(s)) = "0" THEN StripZeros(SubSeq(s, 1, Len(s) - 1)) ELSE s

\* parseFloat of a text of digits and dots
ParseFloat(text) ==
    LET intEnd == RunEnd(text, 1, Digits)
        intPart == SubSeq(text, 1, intEnd - 1)
        hasDot == intEnd <= Len(text) /\ Ch(text, intEnd) = "."
        frac == IF hasDot THEN SubSeq(text, intEnd + 1, RunEnd(text, intEnd + 1, Digits) - 1)
                ELSE ""
    IN IF intPart = "" /\ frac = ""
       THEN [t |-> "number", n |-> 0, s |-> "NaN"]
       ELSE [t |-> "number", n |-> ParseInt(intPart), s |-> StripZeros(frac)]

----------------------------------------------------------------------------
(* determineFilters                                                        *)

\* the filters one column of the main table contributes, in the order the loop
\* body appends them; each of the four patterns holds the column name, so a
\* text without the name matches none
MainColumnFilters(q, table, col) ==
    LET colLower == col.lowerName
        field == table \o "." \o col.dbName
        eq == EqualsMatch(q, colLower)
        has == ContainsMatch(q, colLower)
        gt == CompareMatch(q, colLower, {">", "greater than", "more than"})
        lt == CompareMatch(q, colLower, {"<", "less than", "under"})
    IN IF ~Includes(q, colLower) THEN <<>> ELSE
       (IF eq # NoMatch THEN <<Filter(field, "=", Str(Trim(eq)))>> ELSE <<>>)
       \o (IF has # NoMatch THEN <<Filter(field, "LIKE", Str("%" \o Trim(has) \o "%"))>>
           ELSE <<>>)
       \o (IF gt # NoMatch THEN <<Filter(field, ">", ParseFloat(Trim(gt)))>> ELSE <<>>)
       \o (IF lt # NoMatch THEN <<Filter(field, "<", ParseFloat(Trim(lt)))>> ELSE <<>>)

\* the filters one column of the join table contributes
JoinColumnFilters(q, table, col) ==
    LET colLower == col.lowerName
        field == table \o "." \o col.dbName
        eq == EqualsMatch(q, colLower)
        has == ContainsMatch(q, colLower)
    IN IF ~Includes(q, colLower) THEN <<>> ELSE
       (IF eq # NoMatch THEN <<Filter(field, "=", Str(Trim(eq)))>> ELSE <<>>)
       \o (IF has # NoMatch THEN <<Filter(field, "LIKE", Str("%" \o Trim(has) \o "%"))>>
           ELSE <<>>)

RECURSIVE MainFilters(_, _, _)
MainFilters(q, table, cols) ==
    IF Len(cols) = 0 THEN <<>>
    ELSE MainColumnFilters(q, table, Head(cols)) \o MainFilters(q, table, Tail(cols))

RECURSIVE JoinFilters(_, _, _)
JoinFilters(q, table, cols) ==
    IF Len(cols) = 0 THEN <<>>
    ELSE JoinColumnFilters(q, table, Head(cols)) \o JoinFilters(q, table, Tail(cols))

determineFilters(query, mainTable, joinTable) ==
    LET simplifiedQuery == ToLowerCase(query)
        Has(p) == Includes(simplifiedQuery, p)
        main == MainFilters(simplifiedQuery, mainTable, schemas[mainTable].columns)
        join == IF joinTable # ""
                THEN JoinFilters(simplifiedQuery, joinTable, schemas[joinTable].columns)
                ELSE <<>>
        shortcut ==
            IF Has("instore") \/ Has("in store")
            THEN <<Filter(mainTable \o ".sales_type", "=", Str("instore"))>>
            ELSE IF Has("delivery") /\ ~Has("delivery fee") /\ ~Has("delivery plate")
            THEN <<Filter(mainTable \o ".sales_type", "=", Str("delivery"))>>
            ELSE <<>>
        locationMatch == LocationMatch(simplifiedQuery)
        location ==
            IF locationMatch[1] # NoMatch
            THEN <<Filter(mainTable \o "." \o ToLowerCase(locationMatch[2]), "=",
                          Str(Trim(locationMatch[1])))>>
            ELSE <<>>
    IN main \o join \o shortcut \o location

----------------------------------------------------------------------------
(* determineLimit, determineSorting                                        *)

\* null of number | null
NoLimit == -1

determineLimit(query) ==
    LET simplifiedQuery == ToLowerCase(query)
        found == UNION {{<<s, TailDigits(simplifiedQuery, e)>> :
                           e \in AfterLits(simplifiedQuery, {s}, {"top", "first", "limit"})} :
                        s \in {x \in 1..Len(simplifiedQuery) :
                                  \E k \in {"top", "first", "limit"} :
                                      LitAt(simplifiedQuery, x, k)}}
        limitMatch == Leftmost({f \in found : f[2] # NoMatch})
    IN IF limitMatch # NoMatch THEN ParseInt(limitMatch)
       ELSE IF Includes(simplifiedQuery, "recent") THEN 10
       ELSE NoLimit

\* null of { field, direction } | null
NoSorting == [field |-> "", direction |-> ""]

determineSorting(query, selectedColumns, mainTable, groupBy) ==
    LET simplifiedQuery == ToLowerCase(query)
        Has(p) == Includes(simplifiedQuery, p)
        Asked(col) ==
            \/ Has("order by " \o ToLowerCase(col.displayName))
            \/ Has("sort by " \o ToLowerCase(col.displayName))
            \/ Has("sorted by " \o ToLowerCase(col.displayName))
        direction ==
            IF Has("descending") \/ Has("desc") \/ Has("highest") \/ Has("most")
            THEN "DESC" ELSE "ASC"
        plain == SelectSeq(selectedColumns, LAMBDA col : col.aggregate = "" /\ Asked(col))
        aggregated == SelectSeq(selectedColumns, LAMBDA col : col.aggregate # "" /\ Asked(col))
        explicit == Has("order by") \/ Has("sort by") \/ Has("sorted by")
        dateInGroupBy == \E i \in 1..Len(groupBy) : Includes(groupBy[i], "sales_date")
    IN IF explicit /\ Len(plain) > 0
       THEN [field |-> plain[1].tableName \o "." \o plain[1].columnName,
             direction |-> direction]
       ELSE IF explicit /\ Len(aggregated) > 0
       THEN [field |-> aggregated[1].aggregate \o "(" \o aggregated[1].tableName \o "."
                          \o aggregated[1].columnName \o ")",
             direction |-> direction]
       ELSE IF /\ mainTable = "sales_data"
               /\ ~Has("oldest")
               /\ (~HasAggregates(selectedColumns) \/ dateInGroupBy)
       THEN [field |-> mainTable \o ".sales_date", direction |-> "DESC"]
       ELSE NoSorting

----------------------------------------------------------------------------
(* buildSqlQuery                                                           *)

\* text.split(sep) for a one-character separator
RECURSIVE Split(_, _)
Split(text, sep) ==
    LET at == {i \in 1..Len(text) : Ch(text, i) = sep}
    IN IF at = {} THEN <<text>>
       ELSE <<SubSeq(text, 1, Min(at) - 1)>> \o Split(SubSeq(text, Min(at) + 1, Len(text)), sep)

\* first loop over groupBy: a plain column reference that the select list does not
\* hold yet is added as a plain selection
RECURSIVE AddGroupColumns(_, _)
AddGroupColumns(columnsToSelect, groupBy) ==
    IF Len(groupBy) = 0 THEN columnsToSelect
    ELSE LET groupItem == Head(groupBy)
             parts == Split(groupItem, ".")
             columnName == IF Len(parts) > 1 THEN parts[2] ELSE parts[1]
             alreadySelected ==
                 \E i \in 1..Len(columnsToSelect) :
                     \/ columnsToSelect[i].columnName = columnName
                     \/ columnsToSelect[i].tableName \o "." \o columnsToSelect[i].columnName
                            = groupItem
         IN IF Includes(groupItem, "(") \/ alreadySelected
            THEN AddGroupColumns(columnsToSelect, Tail(groupBy))
            ELSE AddGroupColumns(
                     Append(columnsToSelect, SelCol(parts[1], columnName, columnName, "")),
                     Tail(groupBy))

\* the alias synthesized for a function expression of GROUP BY
GroupAlias(groupItem) ==
    IF Includes(groupItem, "FORMAT") THEN "month"
    ELSE IF Includes(groupItem, "YEAR") THEN "year"
    ELSE IF Includes(groupItem, "QUARTER") THEN "quarter"
    ELSE IF Includes(groupItem, "WEEK") THEN "week"
    ELSE "group_field"

\* is the alias of a function expression free in the select list
AliasFree(columnsToSelect, displayName) ==
    ~\E i \in 1..Len(columnsToSelect) : columnsToSelect[i].displayName = displayName

\* second loop over groupBy: a function expression is added under its alias
RECURSIVE AddGroupExpressions(_, _)
AddGroupExpressions(columnsToSelect, groupBy) ==
    IF Len(groupBy) = 0 THEN columnsToSelect
    ELSE LET groupItem == Head(groupBy)
             displayName == GroupAlias(groupItem)
         IN IF Includes(groupItem, "(") /\ AliasFree(columnsToSelect, displayName)
            THEN AddGroupExpressions(
                     Append(columnsToSelect, SelCol("", groupItem, displayName, "")),
                     Tail(groupBy))
            ELSE AddGroupExpressions(columnsToSelect, Tail(groupBy))

\* the select list buildSqlQuery renders
ColumnsToSelect(selectedColumns, groupBy) ==
    AddGroupExpressions(AddGroupColumns(selectedColumns, groupBy), groupBy)

\* one item of the SELECT list
RenderColumn(col) ==
    IF col.columnName = "COUNT(*)" THEN "COUNT(*) AS " \o col.displayName
    ELSE IF col.aggregate # ""
    THEN col.aggregate \o "(" \o col.tableName \o "." \o col.columnName \o ") AS "
             \o col.displayName
    ELSE IF col.tableName = "" \/ Includes(col.columnName, "(")
    THEN col.columnName \o " AS " \o col.displayName
    ELSE col.tableName \o "." \o col.columnName \o " AS " \o col.displayName

\* the SELECT list as the sequence of its rendered items
ColumnSelections(selectedColumns, groupBy) ==
    LET cols == ColumnsToSelect(selectedColumns, groupBy)
    IN [i \in 1..Len(cols) |-> RenderColumn(cols[i])]

JoinIndent == "\n                      "

JoinCondition(mainTable, joinTable) ==
    IF mainTable = "sales_data" /\ joinTable = "product_design"
    THEN mainTable \o ".product_name = " \o joinTable \o ".Product_Name " \o JoinIndent
         \o "AND " \o mainTable \o ".country = " \o joinTable \o ".Country " \o JoinIndent
         \o "AND " \o mainTable \o ".region = " \o joinTable \o ".Region " \o JoinIndent
         \o "AND " \o mainTable \o ".city = " \o joinTable \o ".City"
    ELSE IF mainTable = "sales_data" /\ joinTable = "vehicle_master"
    THEN mainTable \o ".delivery_plate = " \o joinTable \o ".Vehicle_Plate " \o JoinIndent
         \o "AND " \o mainTable \o ".country = " \o joinTable \o ".Country " \o JoinIndent
         \o "AND " \o mainTable \o ".region = " \o joinTable \o ".Region " \o JoinIndent
         \o "AND " \o mainTable \o ".city = " \o joinTable \o ".City"
    ELSE ""

\* the WHERE clause as the sequence of its rendered conditions
FilterClauses(filters) ==
    [i \in 1..Len(filters) |-> filters[i].field \o " " \o filters[i].operator \o " ?"]

\* sorting.field.split('.').pop()
Last(seq) == seq[Len(seq)]

\* the check without its GROUP BY disjunct
OrderByAppliesUngrouped(selectedColumns, groupBy, sorting) ==
    ~HasAggregates(selectedColumns) \/ Includes(sorting.field, "(")

\* the check that decides whether ORDER BY is rendered
OrderByApplies(selectedColumns, groupBy, sorting) ==
    LET sortingUsesAggregate == Includes(sorting.field, "(")
        sortingFieldBase == Last(Split(sorting.field, "."))
        sortingFieldIsInGroupBy ==
            \E i \in 1..Len(groupBy) : Includes(groupBy[i], sortingFieldBase)
    IN ~HasAggregates(selectedColumns) \/ sortingUsesAggregate \/ sortingFieldIsInGroupBy

buildSqlQuery(mainTable, joinTable, selectedColumns, needsAggregation, groupBy, filters, sorting, limit) ==
    LET columnSelections == ColumnSelections(selectedColumns, groupBy)
    IN "SELECT "
       \o (IF Len(columnSelections) = 0 THEN "* " ELSE Join(columnSelections, ", "))
       \o " FROM " \o schemas[mainTable].dbTableName \o " AS " \o mainTable
       \o (IF joinTable # ""
           THEN " LEFT JOIN " \o schemas[joinTable].dbTableName \o " AS " \o joinTable
                \o " ON " \o JoinCondition(mainTable, joinTable)
           ELSE "")
       \o (IF Len(filters) > 0 THEN " WHERE " \o Join(FilterClauses(filters), " AND ")
           ELSE "")
       \o (IF Len(groupBy) > 0 THEN " GROUP BY " \o Join(groupBy, ", ") ELSE "")
       \o (IF sorting # NoSorting /\ OrderByApplies(selectedColumns, groupBy, sorting)
           THEN " ORDER BY " \o sorting.field \o " " \o sorting.direction
           ELSE "")
       \o (IF limit # NoLimit THEN " LIMIT " \o ToString(limit) ELSE "")

----------------------------------------------------------------------------
(* generateExplanation                                                     *)

ExplainAggregate(col) ==
    IF col.aggregate = "COUNT" /\ col.columnName = "COUNT(*)" THEN "the total count of records"
    ELSE IF col.aggregate = "SUM" THEN "the sum of " \o col.columnName
    ELSE IF col.aggregate = "AVG" THEN "the average " \o col.columnName
    ELSE col.aggregate \o " of " \o col.columnName

\* parts[1] of text.split('.'), undefined rendered as the text "undefined"
SecondPart(text) ==
    LET parts == Split(text, ".") IN IF Len(parts) > 1 THEN parts[2] ELSE "undefined"

\* sorting.field.split('(').pop()?.split(')')[0]?.split('.')[1] || sorting.field
SortFieldName(field) ==
    LET inner == Split(Last(Split(field, "(")), ")")[1]
        parts == Split(inner, ".")
    IN IF Len(parts) > 1 /\ parts[2] # "" THEN parts[2] ELSE field

\* the check that decides whether the ordering sentence is written
ExplainsOrdering(selectedColumns, groupBy, sorting) ==
    LET sortingUsesAggregate == Includes(sorting.field, "(")
        sortingFieldBase == Last(Split(sorting.field, "."))
        sortingFieldIsInGroupBy ==
            \E i \in 1..Len(groupBy) : Includes(groupBy[i], sortingFieldBase)
    IN ~HasAggregates(selectedColumns) \/ sortingUsesAggregate \/ sortingFieldIsInGroupBy

generateExplanation(mainTable, joinTable, selectedColumns, needsAggregation, groupBy, filters, sorting, limit) ==
    LET aggregateColumns == SelectSeq(selectedColumns, LAMBDA col : col.aggregate # "")
        regularColumns == SelectSeq(selectedColumns, LAMBDA col : col.aggregate = "")
        groupExplanations ==
            [i \in 1..Len(groupBy) |->
               IF Len(Split(groupBy[i], ".")) > 1 THEN Split(groupBy[i], ".")[2]
               ELSE groupBy[i]]
    IN "This query retrieves data from the " \o schemas[mainTable].description
       \o (IF joinTable # ""
           THEN " and joins it with the " \o schemas[joinTable].description ELSE "")
       \o (IF Len(aggregateColumns) > 0
           THEN ". It calculates "
                \o Join([i \in 1..Len(aggregateColumns) |->
                           ExplainAggregate(aggregateColumns[i])], ", ")
           ELSE "")
       \o (IF Len(regularColumns) > 0
           THEN " and includes "
                \o Join([i \in 1..Len(regularColumns) |-> regularColumns[i].displayName], ", ")
           ELSE "")
       \o (IF Len(filters) > 0
           THEN ". The data is filtered to include only records where "
                \o Join([i \in 1..Len(filters) |->
                           SecondPart(filters[i].field) \o " " \o filters[i].operator
                               \o " " \o StringOf(filters[i].value)], " and ")
           ELSE "")
       \o (IF Len(groupBy) > 0
           THEN ". The results are grouped by " \o Join(groupExplanations, ", ")
           ELSE "")
       \o (IF sorting # NoSorting /\ ExplainsOrdering(selectedColumns, groupBy, sorting)
           THEN ". The results are ordered by " \o SortFieldName(sorting.field) \o " in "
                \o ToLowerCase(sorting.direction) \o " order"
           ELSE "")
       \o (IF limit # NoLimit
           THEN ". Only the first " \o ToString(limit) \o " results will be returned"
           ELSE "")
       \o "."

----------------------------------------------------------------------------
(* generateSqlQuery                                                        *)

\* the main table the query text selects
MainTableOf(simplifiedQuery) ==
    IF Includes(simplifiedQuery, "product") /\ Includes(simplifiedQuery, "material")
    THEN "product_design"
    ELSE IF \/ Includes(simplifiedQuery, "vehicle")
            \/ (Includes(simplifiedQuery, "delivery") /\ Includes(simplifiedQuery, "plate"))
    THEN "vehicle_master"
    ELSE "sales_data"

\* JoinTableOf without the test of the main table
JoinTableOfAnyMain(simplifiedQuery, mainTable) ==
    IF \/ Includes(simplifiedQuery, "material")
       \/ Includes(simplifiedQuery, "product price")
       \/ Includes(simplifiedQuery, "product cost")
    THEN "product_design"
    ELSE IF Includes(simplifiedQuery, "vehicle") /\ ~Includes(simplifiedQuery, "delivery plate")
    THEN "vehicle_master"
    ELSE ""

\* the join table, "" for none
JoinTableOf(simplifiedQuery, mainTable) ==
    IF mainTable # "sales_data" THEN ""
    ELSE IF \/ Includes(simplifiedQuery, "material")
            \/ Includes(simplifiedQuery, "product price")
            \/ Includes(simplifiedQuery, "product cost")
    THEN "product_design"
    ELSE IF Includes(simplifiedQuery, "vehicle") /\ ~Includes(simplifiedQuery, "delivery plate")
    THEN "vehicle_master"
    ELSE ""

IsSalesByProduct(simplifiedQuery) ==
    \/ Includes(simplifiedQuery, "sales by product")
    \/ (Includes(simplifiedQuery, "sales") /\ Includes(simplifiedQuery, "product"))

NeedsAggregation(simplifiedQuery) ==
    \/ Includes(simplifiedQuery, "total")
    \/ Includes(simplifiedQuery, "average")
    \/ Includes(simplifiedQuery, "sum")
    \/ Includes(simplifiedQuery, "count")
    \/ Includes(simplifiedQuery, "min")
    \/ Includes(simplifiedQuery, "max")
    \/ Includes(simplifiedQuery, "group by")
    \/ IsSalesByProduct(simplifiedQuery)

\* the intent before any query was analysed
NoIntent ==
    [mainTable |-> "", joinTable |-> "", selectedColumns |-> <<>>,
     needsAggregation |-> FALSE, groupBy |-> <<>>, filters |-> <<>>,
     timeFilters |-> <<>>, sorting |-> NoSorting, limit |-> NoLimit]

\* selectedColumns after the sales-by-product step
SelectedColumnsOf(simplifiedQuery, mainTable, determined) ==
    IF IsSalesByProduct(simplifiedQuery) /\ ~HasAggregates(determined)
    THEN determined \o FirstDefault(mainTable, <<"quantity">>, "SUM", "total_")
    ELSE determined

\* groupBy after the sales-by-product step
GroupByOf(simplifiedQuery, mainTable, grouping) ==
    IF IsSalesByProduct(simplifiedQuery) /\ Len(grouping) = 0
    THEN <<mainTable \o ".product_name">> ELSE grouping

\* the locals of generateSqlQuery that make up the intent of the query, but for
\* the time filters, which are the only ones to read the wall clock; each step
\* takes the locals set before it
IntentGrouped(simplifiedQuery, mainTable, joinTable, selectedColumns, groupBy) ==
    [mainTable |-> mainTable, joinTable |-> joinTable,
     selectedColumns |-> selectedColumns,
     needsAggregation |-> NeedsAggregation(simplifiedQuery),
     groupBy |-> groupBy,
     filters |-> determineFilters(simplifiedQuery, mainTable, joinTable),
     timeFilters |-> <<>>,
     sorting |-> determineSorting(simplifiedQuery, selectedColumns, mainTable, groupBy),
     limit |-> determineLimit(simplifiedQuery)]

IntentSelected(simplifiedQuery, mainTable, joinTable, selectedColumns) ==
    IntentGrouped(simplifiedQuery, mainTable, joinTable, selectedColumns,
        GroupByOf(simplifiedQuery, mainTable,
            determineGrouping(simplifiedQuery, selectedColumns, mainTable)))

IntentJoined(simplifiedQuery, mainTable, joinTable) ==
    IntentSelected(simplifiedQuery, mainTable, joinTable,
        SelectedColumnsOf(simplifiedQuery, mainTable,
            determineColumns(simplifiedQuery, mainTable, joinTable)))

IntentOn(simplifiedQuery, mainTable) ==
    IntentJoined(simplifiedQuery, mainTable, JoinTableOf(simplifiedQuery, mainTable))

AnalysedIntent(userQuery) ==
    IntentOn(ToLowerCase(userQuery), MainTableOf(ToLowerCase(userQuery)))

\* the time filters of the query, resolved against the wall clock
WithTimeFilters(userQuery, analysed, today, zoneAhead) ==
    [analysed EXCEPT !.timeFilters =
        extractTimeFilters(ToLowerCase(userQuery), analysed.mainTable, today, zoneAhead)]

\* the locals of generateSqlQuery that make up the intent of the query
IntentOf(userQuery, today, zoneAhead) ==
    WithTimeFilters(userQuery, AnalysedIntent(userQuery), today, zoneAhead)

\* ResultOf with the parameters taken time filters first
ResultOfTimeFirst(it) ==
    LET allFilters == it.filters \o it.timeFilters
        swapped == it.timeFilters \o it.filters
    IN [success |-> TRUE,
        sql |-> buildSqlQuery(it.mainTable, it.joinTable, it.selectedColumns,
                                 it.needsAggregation, it.groupBy, allFilters,
                                 it.sorting, it.limit),
        params |-> [i \in 1..Len(swapped) |-> swapped[i].value],
        explanation |-> generateExplanation(it.mainTable, it.joinTable,
                                 it.selectedColumns, it.needsAggregation, it.groupBy,
                                 allFilters, it.sorting, it.limit),
        error |-> ""]

\* the value generateSqlQuery resolves to once the intent is determined
ResultOf(it) ==
    LET allFilters == it.filters \o it.timeFilters
    IN [success |-> TRUE,
        sql |-> buildSqlQuery(it.mainTable, it.joinTable, it.selectedColumns,
                                 it.needsAggregation, it.groupBy, allFilters,
                                 it.sorting, it.limit),
        params |-> [i \in 1..Len(allFilters) |-> allFilters[i].value],
        explanation |-> generateExplanation(it.mainTable, it.joinTable,
                                 it.selectedColumns, it.needsAggregation, it.groupBy,
                                 allFilters, it.sorting, it.limit),
        error |-> ""]

\* the value generateSqlQuery resolves to
generateSqlQuery(userQuery, dbConnected, today, zoneAhead) ==
    IF ~dbConnected
    THEN [success |-> FALSE, sql |-> "", params |-> <<>>,
          explanation |-> "Database connection failed",
          error |-> "Unable to connect to the database"]
    ELSE ResultOf(IntentOf(userQuery, today, zoneAhead))

----------------------------------------------------------------------------
(* prepareDataForVisualization                                             *)

\* A chart is the object the chart builders return: data is the array of
\* rows when hasData, config and chartConfig are objects when hasConfig and
\* hasChartConfig; isNull marks the null result.
Chart(chartType, data, config, chartConfig) ==
    [isNull |-> FALSE, chartType |-> chartType, hasData |-> TRUE, data |-> data,
     hasConfig |-> TRUE, config |-> config,
     hasChartConfig |-> TRUE, chartConfig |-> chartConfig]

NullChart ==
    [isNull |-> TRUE, chartType |-> Undefined, hasData |-> FALSE, data |-> <<>>,
     hasConfig |-> FALSE, config |-> <<>>,
     hasChartConfig |-> FALSE, chartConfig |-> <<>>]

\* s.replace(/\s+/g, '_')
RECURSIVE SpacesToUnderscore(_)
SpacesToUnderscore(s) ==
    IF Len(s) = 0 THEN ""
    ELSE IF IsSpace(Ch(s, 1))
    THEN "_" \o SpacesToUnderscore(SubSeq(s, RunEnd(s, 1, {" "}), Len(s)))
    ELSE Ch(s, 1) \o SpacesToUnderscore(SubSeq(s, 2, Len(s)))

\* s.replace(/[^a-zA-Z0-9_]/g, '')
RECURSIVE KeepWordChars(_)
KeepWordChars(s) ==
    IF Len(s) = 0 THEN ""
    ELSE IF Len(s) = 1 THEN (IF IsWordChar(s) THEN s ELSE "")
    ELSE KeepWordChars(SubSeq(s, 1, Len(s) \div 2))
         \o KeepWordChars(SubSeq(s, (Len(s) \div 2) + 1, Len(s)))

\* the series key the chart builder derives from a column name or a segment
SeriesKey(name) == ToLowerCase(KeepWordChars(SpacesToUnderscore(name)))

\* word.charAt(0).toUpperCase() + word.slice(1)
Capitalize(word) ==
    IF Len(word) = 0 THEN "" ELSE UpperOf(Ch(word, 1)) \o SubSeq(word, 2, Len(word))

formatColumnLabel(columnName) ==
    IF StartsWith(columnName, "total_")
    THEN "Total " \o ReplaceAll(SubSeq(columnName, 7, Len(columnName)), "_", " ")
    ELSE IF StartsWith(columnName, "avg_")
    THEN "Average " \o ReplaceAll(SubSeq(columnName, 5, Len(columnName)), "_", " ")
    ELSE IF StartsWith(columnName, "count_")
    THEN "Count of " \o ReplaceAll(SubSeq(columnName, 7, Len(columnName)), "_", " ")
    ELSE IF \/ Includes(columnName, "FORMAT(") \/ Includes(columnName, "YEAR(")
            \/ Includes(columnName, "MONTH(") \/ Includes(columnName, "DAY(")
    THEN "Date"
    ELSE LET words == Split(columnName, "_")
         IN Join([i \in 1..Len(words) |-> Capitalize(words[i])], " ")

\* array.find(test) || '' of a sequence of strings
FindOr(seq, Test(_), default) ==
    LET hits == SelectSeq(seq, Test) IN IF Len(hits) = 0 THEN default ELSE hits[1]

IsTimeColumn(col) ==
    LET lower == ToLowerCase(col)
    IN \/ Includes(lower, "date") \/ Includes(lower, "month") \/ Includes(lower, "year")
       \/ Includes(lower, "period") \/ Includes(lower, "time_period")
       \/ Includes(lower, "format(")

monthNames ==
    <<"Jan", "Feb", "Mar", "Apr", "May", "Jun", "Jul", "Aug", "Sep", "Oct", "Nov", "Dec">>

\* text matches /^\d{4}-\d{2}-\d{2}$/
IsDayText(text) ==
    /\ Len(text) = 10
    /\ \A i \in {1, 2, 3, 4, 6, 7, 9, 10} : IsDigitAt(text, i)
    /\ Ch(text, 5) = "-" /\ Ch(text, 8) = "-"

\* text matches /^\d{4}-\d{2}$/
IsMonthText(text) ==
    Len(text) = 7 /\ (\A i \in {1, 2, 3, 4, 6, 7} : IsDigitAt(text, i)) /\ Ch(text, 5) = "-"

\* text matches /^\d{4}-Q[1-4]$/
IsQuarterText(text) ==
    /\ Len(text) = 7 /\ (\A i \in 1..4 : IsDigitAt(text, i))
    /\ SubSeq(text, 5, 6) = "-Q" /\ Ch(text, 7) \in {"1", "2", "3", "4"}

\* new Date(text).toLocaleDateString('en-US', {month: 'short', day: 'numeric',
\* year: 'numeric'}) of a calendar day: the text is read as midnight UTC, which
\* is the day before in a local zone behind UTC
DayLabel(text, zoneBehind) ==
    LET year == ParseInt(SubSeq(text, 1, 4))
        month == ParseInt(SubSeq(text, 6, 7))
        day == ParseInt(SubSeq(text, 9, 10))
    IN IF month < 1 \/ month > 12 \/ day < 1 \/ day > DaysInMonth(year, month)
       THEN "Invalid Date"
       ELSE LET local == IF zoneBehind THEN LocalDate(year, month, day - 1)
                         ELSE [y |-> year, m |-> month, d |-> day]
            IN monthNames[local.m] \o " " \o ToString(local.d) \o ", " \o ToString(local.y)

\* the label the time formatting gives one x-axis value
TimeLabel(timeValue, zoneBehind) ==
    IF ~(Truthy(timeValue) /\ TypeOf(timeValue) = "string") THEN timeValue
    ELSE IF IsDayText(timeValue.s) THEN Str(DayLabel(timeValue.s, zoneBehind))
    ELSE IF IsMonthText(timeValue.s)
    THEN LET parts == Split(timeValue.s, "-")
             index == ParseInt(parts[2])
         IN Str((IF index \in 1..12 THEN monthNames[index] ELSE "undefined")
                \o " " \o parts[1])
    ELSE IF IsQuarterText(timeValue.s)
    THEN LET parts == Split(timeValue.s, "-") IN Str(parts[2] \o " " \o parts[1])
    ELSE timeValue

\* ChartTypeOf that asks a multibar chart for more than two numeric columns
ChartTypeOfManySeries(results, queryLower, timeColumns, numericColumns, categoricalColumns) ==
    LET hasTimeColumn == Len(timeColumns) > 0
    IN IF /\ hasTimeColumn
          /\ \/ Includes(queryLower, "trend") \/ Includes(queryLower, "over time")
             \/ Includes(queryLower, "timeseries") \/ Includes(queryLower, "time series")
       THEN "line"
       ELSE IF Len(categoricalColumns) > 0 /\ Len(numericColumns) > 2 THEN "multibar"
       ELSE IF \/ Includes(queryLower, "distribution") \/ Includes(queryLower, "breakdown")
               \/ Includes(queryLower, "proportion") \/ Includes(queryLower, "percentage")
               \/ Includes(queryLower, "share") \/ Includes(queryLower, "pie")
       THEN "pie"
       ELSE IF Len(results) > 10 /\ hasTimeColumn THEN "line"
       ELSE IF Len(numericColumns) > 3 THEN "multibar"
       ELSE "bar"

\* the chart type prepareDataForVisualization chooses
ChartTypeOf(results, queryLower, timeColumns, numericColumns, categoricalColumns) ==
    LET hasTimeColumn == Len(timeColumns) > 0
    IN IF /\ hasTimeColumn
          /\ \/ Includes(queryLower, "trend") \/ Includes(queryLower, "over time")
             \/ Includes(queryLower, "timeseries") \/ Includes(queryLower, "time series")
       THEN "line"
       ELSE IF Len(categoricalColumns) > 0 /\ Len(numericColumns) > 1 THEN "multibar"
       ELSE IF \/ Includes(queryLower, "distribution") \/ Includes(queryLower, "breakdown")
               \/ Includes(queryLower, "proportion") \/ Includes(queryLower, "percentage")
               \/ Includes(queryLower, "share") \/ Includes(queryLower, "pie")
       THEN "pie"
       ELSE IF Len(results) > 10 /\ hasTimeColumn THEN "line"
       ELSE IF Len(numericColumns) > 3 THEN "multibar"
       ELSE IF Len(numericColumns) = 1 /\ Len(categoricalColumns) = 1 THEN "bar"
       ELSE "bar"

\* the value column of a bar or line chart, '' when there is none
ValueColumnOf(queryLower, numericColumns) ==
    LET Mentioned(col) == Includes(queryLower, ToLowerCase(col))
        HasTotal(col) == Includes(ToLowerCase(col), "total")
        HasSum(col) == Includes(ToLowerCase(col), "sum")
        IsQuantity(col) == col = "quantity"
        mentioned == FindOr(numericColumns, Mentioned, "")
    IN IF mentioned # "" \/ Len(numericColumns) = 0 THEN mentioned
       ELSE IF FindOr(numericColumns, HasTotal, "") # ""
       THEN FindOr(numericColumns, HasTotal, "")
       ELSE IF FindOr(numericColumns, HasSum, "") # ""
       THEN FindOr(numericColumns, HasSum, "")
       ELSE IF FindOr(numericColumns, IsQuantity, "") # "" THEN "quantity"
       ELSE numericColumns[1]

\* chartConfig of a pie chart: one entry per row, a later row with the same
\* series key overwriting the earlier one
RECURSIVE SegmentConfig(_, _, _)
SegmentConfig(chartConfig, results, xAxisKey) ==
    IF Len(results) = 0 THEN chartConfig
    ELSE LET label == StringOf(Get(Head(results), xAxisKey))
         IN SegmentConfig(Put(chartConfig, SeriesKey(label), <<[k |-> "label", v |-> Str(label)]>>),
                          Tail(results), xAxisKey)

\* chartConfig of a multibar chart: one entry per numeric column
RECURSIVE SeriesConfig(_, _)
SeriesConfig(chartConfig, numericColumns) ==
    IF Len(numericColumns) = 0 THEN chartConfig
    ELSE LET col == Head(numericColumns)
         IN SeriesConfig(Put(chartConfig, SeriesKey(col),
                             <<[k |-> "label", v |-> Str(formatColumnLabel(col))]>>),
                         Tail(numericColumns))

\* the data point of a multibar chart for one row
RECURSIVE DataPoint(_, _, _)
DataPoint(dataPoint, row, numericColumns) ==
    IF Len(numericColumns) = 0 THEN dataPoint
    ELSE DataPoint(Put(dataPoint, Head(numericColumns), Get(row, Head(numericColumns))),
                   row, Tail(numericColumns))

\* the config object of a built chart
ChartConfigOf(xAxisKey, title, description) ==
    <<[k |-> "xAxisKey", v |-> Str(xAxisKey)], [k |-> "title", v |-> Str(title)],
      [k |-> "description", v |-> Str(description)]>>

defaultTitle == "Sales Data Analysis"

defaultDescription == "Analysis based on your query"

\* the chart before the time labels are formatted
UnformattedChart(results, queryLower, columns, timeColumns, numericColumns, categoricalColumns, xAxisKey) ==
    LET chartType == ChartTypeOf(results, queryLower, timeColumns, numericColumns,
                                 categoricalColumns)
        IsNumber(col) == TypeOf(Get(results[1], col)) = "number"
        empty == Chart(Str(chartType), <<>>,
                       ChartConfigOf("", defaultTitle, defaultDescription), <<>>)
    IN IF chartType = "pie"
       THEN LET valueColumn == IF Len(numericColumns) > 0 THEN numericColumns[1]
                               ELSE FindOr(columns, IsNumber, "")
            IN IF xAxisKey # "" /\ valueColumn # ""
               THEN Chart(Str("pie"),
                          [i \in 1..Len(results) |->
                              <<[k |-> "segment", v |-> Str(StringOf(Get(results[i], xAxisKey)))],
                                [k |-> "value", v |-> Get(results[i], valueColumn)]>>],
                          ChartConfigOf("segment",
                              "Distribution of " \o valueColumn \o " by " \o xAxisKey,
                              "Breakdown of " \o valueColumn \o " across different "
                                  \o xAxisKey \o " categories"),
                          SegmentConfig(<<>>, results, xAxisKey))
               ELSE empty
       ELSE IF chartType = "multibar"
       THEN Chart(Str("multibar"),
                  [i \in 1..Len(results) |->
                      DataPoint(<<[k |-> xAxisKey, v |-> Get(results[i], xAxisKey)]>>,
                                results[i], numericColumns)],
                  ChartConfigOf(xAxisKey,
                      "Comparison of " \o Join(SubSeq(numericColumns, 1, Min({3, Len(numericColumns)})), ", ")
                          \o (IF Len(numericColumns) > 3 THEN " and others" ELSE "")
                          \o " by " \o xAxisKey,
                      "Comparing metrics across different " \o xAxisKey \o " values"),
                  SeriesConfig(<<>>, numericColumns))
       ELSE LET valueColumn == ValueColumnOf(queryLower, numericColumns)
                label == formatColumnLabel(valueColumn)
            IN IF xAxisKey # "" /\ valueColumn # ""
               THEN Chart(Str(chartType),
                          [i \in 1..Len(results) |->
                              Put(<<[k |-> xAxisKey, v |-> Get(results[i], xAxisKey)]>>,
                                  valueColumn, Get(results[i], valueColumn))],
                          IF chartType = "line"
                          THEN ChartConfigOf(xAxisKey,
                                   label \o " Trend by " \o formatColumnLabel(xAxisKey),
                                   "How " \o label \o " changes over time")
                          ELSE ChartConfigOf(xAxisKey,
                                   label \o " by " \o formatColumnLabel(xAxisKey),
                                   "Comparison of " \o label \o " across different categories"),
                          <<[k |-> SeriesKey(valueColumn),
                             v |-> <<[k |-> "label", v |-> Str(label)]>>]>>)
               ELSE empty

\* zoneBehind tells whether the local zone of the server is behind UTC
prepareDataForVisualization(results, nlQuery, zoneBehind) ==
    IF Len(results) = 0 THEN NullChart
    ELSE LET queryLower == ToLowerCase(nlQuery)
             columns == Keys(results[1])
             IsNumeric(col) ==
                 /\ TypeOf(Get(results[1], col)) = "number"
                 /\ ~Includes(ToLowerCase(col), "id")
                 /\ col # "key"
             timeColumns == SelectSeq(columns, IsTimeColumn)
             IsCategorical(col) ==
                 /\ TypeOf(Get(results[1], col)) = "string"
                 /\ ~Includes(ToLowerCase(col), "date")
                 /\ ~IsTimeColumn(col)
             numericColumns == SelectSeq(columns, IsNumeric)
             categoricalColumns == SelectSeq(columns, IsCategorical)
             hasTimeColumn == Len(timeColumns) > 0
             xAxisKey == IF hasTimeColumn THEN timeColumns[1]
                         ELSE IF Len(categoricalColumns) > 0 THEN categoricalColumns[1]
                         ELSE IF Len(columns) > 0 THEN columns[1]
                         ELSE ""
             chartData == UnformattedChart(results, queryLower, columns, timeColumns,
                              numericColumns, categoricalColumns, xAxisKey)
         IN IF hasTimeColumn /\ Len(chartData.data) > 0
            THEN [chartData EXCEPT !.data =
                    [i \in 1..Len(chartData.data) |->
                        LET item == chartData.data[i]
                            timeValue == Get(item, xAxisKey)
                        IN IF Truthy(timeValue) /\ TypeOf(timeValue) = "string"
                              /\ (IsDayText(timeValue.s) \/ IsMonthText(timeValue.s)
                                  \/ IsQuarterText(timeValue.s))
                           THEN Put(item, xAxisKey, TimeLabel(timeValue, zoneBehind))
                           ELSE item]]
            ELSE chartData

----------------------------------------------------------------------------
(* shouldCreateVisualization                                               *)

\* the number captured by /\b(top|bottom|highest|lowest|most|least)\s+(\d+)\b/i at
\* its leftmost match, NoMatch for none
RankingMatch(q) ==
    LET words == {"top", "bottom", "highest", "lowest", "most", "least"}
        starts == {s \in 1..Len(q) :
                     WordBoundaryBefore(q, s) /\ \E k \in words : LitAt(q, s, k)}
        found == {<<s, TailDigits(q, CHOOSE e \in AfterLits(q, {s}, words) : TRUE)>> :
                    s \in starts}
        Bounded(f) ==
            LET e == CHOOSE x \in AfterLits(q, {f[1]}, words) : TRUE
                end == RunEnd(q, AfterSpaces(q, e), Digits)
            IN end > Len(q) \/ ~IsWordChar(Ch(q, end))
    IN Leftmost({f \in found : f[2] # NoMatch /\ Bounded(f)})

\* !isNaN(parseFloat(String(v))) : after leading spaces and a sign the text
\* starts with a digit, with a dot and a digit, or with Infinity
ParsesAsNumber(text) ==
    LET t == TrimStart(text)
        u == IF Len(t) > 0 /\ Ch(t, 1) \in {"+", "-"} THEN SubSeq(t, 2, Len(t)) ELSE t
    IN \/ IsDigitAt(u, 1)
       \/ (LitAt(u, 1, ".") /\ IsDigitAt(u, 2))
       \/ StartsWith(u, "Infinity")

vizKeywords == <<"compare", "trend", "distribution", "chart", "graph">>

\* metricTerms without the words of a sales total
metricTermsNoSales ==
    <<"revenue", "profit", "products", "performance", "data", "count", "amount">>

metricTerms ==
    <<"sales", "revenue", "profit", "products", "performance", "data", "count", "total",
      "amount">>

categoryTerms ==
    <<"region", "country", "city", "product", "category", "month", "year", "quarter",
      "date", "day", "type">>

\* comparisonKeywords without the ranking words
comparisonKeywordsNoRanking == <<"compare", "comparison", "versus", "vs">>

comparisonKeywords ==
    <<"top", "bottom", "highest", "lowest", "most", "least", "compare", "comparison",
      "versus", "vs">>

\* one of the words of the list is part of the text
IncludesAny(q, words) == \E i \in 1..Len(words) : Includes(q, words[i])

shouldCreateVisualization(data, query, userWantsChart) ==
    LET normalizedQuery == Trim(ToLowerCase(query))
        foundMetric == IncludesAny(normalizedQuery, metricTerms)
        foundCategory ==
            \E i \in 1..Len(categoryTerms) :
                Includes(normalizedQuery, " by " \o categoryTerms[i])
        comparisonFound == IncludesAny(normalizedQuery, comparisonKeywords)
        matches == RankingMatch(normalizedQuery)
        keys == Keys(data[1])
        IsDateKey(key) ==
            LET lower == ToLowerCase(key)
            IN \/ Includes(lower, "date") \/ Includes(lower, "time")
               \/ Includes(lower, "month") \/ Includes(lower, "year")
        IsCategoryKey(key) ==
            LET lower == ToLowerCase(key)
            IN \/ Includes(lower, "type") \/ Includes(lower, "category")
               \/ Includes(lower, "region") \/ Includes(lower, "country")
               \/ Includes(lower, "city") \/ Includes(lower, "product")
               \/ Includes(lower, "name")
        IsNumericKey(key) ==
            LET value == Get(data[1], key)
            IN TypeOf(value) = "number" \/ ParsesAsNumber(StringOf(value))
    IN IF userWantsChart THEN TRUE
       ELSE IF \/ StartsWith(normalizedQuery, "show") \/ StartsWith(normalizedQuery, "display")
               \/ Includes(normalizedQuery, "show me") \/ Includes(normalizedQuery, "visual")
       THEN TRUE
       ELSE IF IncludesAny(normalizedQuery, vizKeywords) THEN TRUE
       ELSE IF /\ Includes(normalizedQuery, " by ")
               /\ foundMetric /\ foundCategory /\ Len(data) > 1
       THEN TRUE
       ELSE IF comparisonFound
       THEN (IF matches # NoMatch THEN ParseInt(matches) > 3 ELSE Len(data) > 3)
       ELSE IF Len(data) <= 3 THEN FALSE
       ELSE IF Len(SelectSeq(keys, IsDateKey)) > 0 THEN TRUE
       ELSE IF Len(SelectSeq(keys, IsCategoryKey)) > 0 THEN TRUE
       ELSE Len(SelectSeq(keys, IsNumericKey)) > 1

----------------------------------------------------------------------------
(* prepareChartDataForFrontend                                             *)

colorPalette ==
    <<"#3366CC", "#DC3912", "#FF9900", "#109618", "#990099",
      "#0099C6", "#DD4477", "#66AA00", "#B82E2E", "#316395">>

defaultMargin == ObjVal("{top: 20, right: 30, bottom: 50, left: 60}")

\* the fields of the first data row that hold a value of the type
FieldsOfType(row, type) ==
    LET HasType(field) == TypeOf(Get(row, field)) = type
    IN SelectSeq(Keys(row), HasType)

\* the title generated for a chart that has none
GeneratedTitle(row) ==
    LET numericFields == FieldsOfType(row, "number")
        IsCategory(field) == ~Includes(field, "date") /\ ~Includes(field, "time")
        categoryFields == SelectSeq(FieldsOfType(row, "string"), IsCategory)
    IN IF Len(numericFields) > 0 /\ Len(categoryFields) > 0
       THEN ReplaceAll(numericFields[1], "_", " ") \o " by "
            \o ReplaceAll(categoryFields[1], "_", " ")
       ELSE "Data Analysis"

\* the x-axis key chosen for a chart that has none; undefined for a row without
\* fields
ChosenXAxisKey(row) ==
    LET NotPieField(field) == field # "value" /\ field # "segment"
        categoryFields == SelectSeq(FieldsOfType(row, "string"), NotPieField)
    IN IF Len(categoryFields) > 0 THEN Str(categoryFields[1])
       ELSE IF Len(row) > 0 THEN Str(Keys(row)[1])
       ELSE Undefined

\* the numeric fields of the row other than the x-axis key
SeriesFields(row, xAxisKey) ==
    LET NotXAxis(field) == Str(field) # xAxisKey
    IN SelectSeq(FieldsOfType(row, "number"), NotXAxis)

\* the series a bar chart without series is given
BarSeries(chartConfig, row, xAxisKey) ==
    LET numericFields == SeriesFields(row, xAxisKey)
    IN IF Len(numericFields) > 0
       THEN <<[k |-> numericFields[1],
               v |-> <<[k |-> "dataKey", v |-> Str(numericFields[1])],
                       [k |-> "name", v |-> Str(ReplaceAll(numericFields[1], "_", " "))],
                       [k |-> "color", v |-> Str("#3366CC")]>>]>>
       ELSE chartConfig

\* Defaulted that gives the value whatever the object holds
Overwritten(o, key, value) == Put(o, key, value)

\* a value for the key when the object holds none or a falsy one
Defaulted(o, key, value) == IF Truthy(Get(o, key)) THEN o ELSE Put(o, key, value)

\* every series is given a colour, by its position, and a dataKey, its key
WithColors(chartConfig) ==
    [i \in 1..Len(chartConfig) |->
        [k |-> chartConfig[i].k,
         v |-> Defaulted(Defaulted(chartConfig[i].v, "color",
                                   Str(colorPalette[((i - 1) % 10) + 1])),
                         "dataKey", Str(chartConfig[i].k))]]

\* PieFormatted that rebuilds the rows whether or not they are {segment, value}
PieFormattedUnchecked(chartData) ==
    LET xAxisKey == Get(chartData.config, "xAxisKey")
        numericFields == SeriesFields(chartData.data[1], xAxisKey)
        reformatted ==
            IF Len(numericFields) > 0 /\ Truthy(xAxisKey)
            THEN [chartData EXCEPT
                    !.data = [i \in 1..Len(chartData.data) |->
                                <<[k |-> "segment",
                                   v |-> Get(chartData.data[i], StringOf(xAxisKey))],
                                  [k |-> "value",
                                   v |-> Get(chartData.data[i], numericFields[1])]>>],
                    !.config = Put(chartData.config, "xAxisKey", Str("segment")),
                    !.chartConfig =
                        <<[k |-> "value",
                           v |-> <<[k |-> "dataKey", v |-> Str("value")],
                                   [k |-> "name",
                                    v |-> Str(ReplaceAll(numericFields[1], "_", " "))],
                                   [k |-> "color", v |-> Str(colorPalette[1])]>>]>>]
            ELSE chartData
    IN [reformatted EXCEPT !.config = Defaulted(reformatted.config, "totalLabel", Str("Total"))]

\* the pie branch: rows that are not all {segment, value} are rebuilt from the
\* x-axis field and the first numeric field, and totalLabel is given
PieFormatted(chartData) ==
    LET hasCorrectFormat ==
            \A i \in 1..Len(chartData.data) :
                HasKey(chartData.data[i], "segment") /\ HasKey(chartData.data[i], "value")
        xAxisKey == Get(chartData.config, "xAxisKey")
        numericFields == SeriesFields(chartData.data[1], xAxisKey)
        reformatted ==
            IF ~hasCorrectFormat /\ Len(numericFields) > 0 /\ Truthy(xAxisKey)
            THEN [chartData EXCEPT
                    !.data = [i \in 1..Len(chartData.data) |->
                                <<[k |-> "segment",
                                   v |-> Get(chartData.data[i], StringOf(xAxisKey))],
                                  [k |-> "value",
                                   v |-> Get(chartData.data[i], numericFields[1])]>>],
                    !.config = Put(chartData.config, "xAxisKey", Str("segment")),
                    !.chartConfig =
                        <<[k |-> "value",
                           v |-> <<[k |-> "dataKey", v |-> Str("value")],
                                   [k |-> "name",
                                    v |-> Str(ReplaceAll(numericFields[1], "_", " "))],
                                   [k |-> "color", v |-> Str(colorPalette[1])]>>]>>]
            ELSE chartData
    IN [reformatted EXCEPT !.config = Defaulted(reformatted.config, "totalLabel", Str("Total"))]

\* a series without dataKey is given the key of the first series
WithCommonDataKey(chartConfig) ==
    [i \in 1..Len(chartConfig) |->
        [k |-> chartConfig[i].k,
         v |-> Defaulted(chartConfig[i].v, "dataKey", Str(chartConfig[1].k))]]

prepareChartDataForFrontend(chartData) ==
    IF chartData.isNull THEN NullChart
    ELSE IF ~chartData.hasData \/ Len(chartData.data) = 0 THEN NullChart
    ELSE LET typed == [chartData EXCEPT
                         !.chartType = IF Truthy(chartData.chartType) THEN chartData.chartType
                                       ELSE Str("bar"),
                         !.hasConfig = TRUE,
                         !.config = IF chartData.hasConfig THEN chartData.config ELSE <<>>,
                         !.hasChartConfig = TRUE,
                         !.chartConfig = IF chartData.hasChartConfig THEN chartData.chartConfig
                                         ELSE <<>>]
             row == typed.data[1]
             titled == Defaulted(typed.config, "title", Str(GeneratedTitle(row)))
             keyed == Defaulted(titled, "xAxisKey", ChosenXAxisKey(row))
             series == IF typed.chartType = Str("bar") /\ Len(typed.chartConfig) = 0
                       THEN BarSeries(typed.chartConfig, row, Get(keyed, "xAxisKey"))
                       ELSE typed.chartConfig
             coloured == [typed EXCEPT !.config = keyed, !.chartConfig = WithColors(series)]
             shaped == IF coloured.chartType = Str("pie") THEN PieFormatted(coloured)
                       ELSE coloured
         IN [shaped EXCEPT
               !.chartConfig = WithCommonDataKey(shaped.chartConfig),
               !.config = Defaulted(shaped.config, "margin", defaultMargin)]

----------------------------------------------------------------------------
(* generateOptimizedChart                                                  *)

\* true
True == [t |-> "boolean", n |-> 1, s |-> ""]

\* !isNaN(Date.parse(text)) or one of the two date patterns, for the texts a
\* result holds: ISO days and months are dates, words are not
LooksLikeDate(text) ==
    \/ (Len(text) >= 10 /\ IsDayText(SubSeq(text, 1, 10)))
    \/ IsMonthText(text)

\* dataTypes[key]: the type of the first value of the column that is neither
\* null nor undefined
DataTypeOf(queryData, key) ==
    LET Present(i) == Get(queryData[i], key).t \notin {"null", "undefined"}
        holders == {i \in 1..Len(queryData) : Present(i)}
    IN IF holders = {} THEN "unknown"
       ELSE LET firstValue == Get(queryData[Min(holders)], key)
            IN IF TypeOf(firstValue) = "number" THEN "number"
               ELSE IF TypeOf(firstValue) = "string"
               THEN (IF LooksLikeDate(firstValue.s) THEN "date" ELSE "string")
               ELSE TypeOf(firstValue)

\* dataKeys.filter(key => dataTypes[key] === type)
ColumnsOfType(queryData, type) ==
    LET HasType(key) == DataTypeOf(queryData, key) = type
    IN SelectSeq(Keys(queryData[1]), HasType)

\* the replies of the chart-design call: the call is rejected, its text is not
\* JSON, or its text parses to a chart configuration
DesignRejected == [kind |-> "rejected", chartConfig |-> NullChart]

DesignUnparsable == [kind |-> "unparsable", chartConfig |-> NullChart]

DesignParsed(chartConfig) == [kind |-> "parsed", chartConfig |-> chartConfig]

\* a chart was returned
Returned(chart) == [threw |-> FALSE, chart |-> chart]

\* the call threw
Thrown == [threw |-> TRUE, chart |-> NullChart]

\* every series without a colour is given one of the palette, by its position
WithPaletteColors(chartConfig) ==
    [i \in 1..Len(chartConfig) |->
        [k |-> chartConfig[i].k,
         v |-> Defaulted(chartConfig[i].v, "color", Str(colorPalette[((i - 1) % 10) + 1]))]]

\* a pie whose first row is not {segment, value} is rebuilt from the x-axis
\* field and the first other numeric field of that row
DesignedPie(chartConfig) ==
    LET row == chartConfig.data[1]
        xAxisKey == Get(chartConfig.config, "xAxisKey")
        valueKeys == SeriesFields(row, xAxisKey)
    IN IF (HasKey(row, "segment") /\ HasKey(row, "value")) \/ Len(valueKeys) = 0
       THEN chartConfig
       ELSE [chartConfig EXCEPT
               !.data = [i \in 1..Len(chartConfig.data) |->
                           <<[k |-> "segment",
                              v |-> Get(chartConfig.data[i], StringOf(xAxisKey))],
                             [k |-> "value", v |-> Get(chartConfig.data[i], valueKeys[1])]>>],
               !.config = Put(chartConfig.config, "xAxisKey", Str("segment")),
               !.chartConfig =
                   <<[k |-> valueKeys[1],
                      v |-> <<[k |-> "dataKey", v |-> Str("value")],
                              [k |-> "name", v |-> Str(valueKeys[1])],
                              [k |-> "color", v |-> Str(colorPalette[1])]>>]>>]

\* the configuration the chart-design call returned, validated and post-processed
DesignedChart(chartConfig) ==
    LET coloured == [chartConfig EXCEPT !.chartConfig = WithPaletteColors(chartConfig.chartConfig)]
    IN IF coloured.chartType = Str("pie") /\ Len(coloured.data) > 0
       THEN DesignedPie(coloured)
       ELSE coloured

\* the required fields of a configuration
HasRequiredFields(chartConfig) ==
    /\ ~chartConfig.isNull
    /\ Truthy(chartConfig.chartType)
    /\ chartConfig.hasData
    /\ chartConfig.hasConfig
    /\ chartConfig.hasChartConfig

\* the chart type of the fallback
FallbackChartType(queryData, chartType) ==
    LET stringColumns == ColumnsOfType(queryData, "string")
        numberColumns == ColumnsOfType(queryData, "number")
        dateColumns == ColumnsOfType(queryData, "date")
    IN IF Truthy(chartType) THEN chartType
       ELSE IF Len(dateColumns) > 0 /\ Len(numberColumns) > 0 THEN Str("line")
       ELSE IF Len(numberColumns) > 1 /\ Len(stringColumns) > 0 THEN Str("bar")
       ELSE IF Len(stringColumns) = 1 /\ Len(numberColumns) = 1
       THEN (IF Len(queryData) <= 7 THEN Str("pie") ELSE Str("bar"))
       ELSE Str("bar")

\* stringColumns[0] || dateColumns[0] || numberColumns[0]
FallbackXAxisKey(queryData) ==
    LET FirstOf(columns) == IF Len(columns) = 0 THEN <<>> ELSE <<columns[1]>>
        candidates == FirstOf(ColumnsOfType(queryData, "string"))
                      \o FirstOf(ColumnsOfType(queryData, "date"))
                      \o FirstOf(ColumnsOfType(queryData, "number"))
        NotEmpty(key) == key # ""
        named == SelectSeq(candidates, NotEmpty)
    IN IF Len(named) = 0 THEN Undefined ELSE Str(named[1])

\* the catch block: the fallback configuration. The series loop reads
\* colorPalette, which is declared inside the try block and is out of scope
\* here: the first numeric column other than the x-axis raises a ReferenceError.
FallbackChart(queryData, nlQuery, chartType) ==
    LET xAxisKey == FallbackXAxisKey(queryData)
        NotXAxis(column) == Str(column) # xAxisKey
        series == SelectSeq(ColumnsOfType(queryData, "number"), NotXAxis)
    IN IF Len(series) > 0 THEN Thrown
       ELSE Returned(Chart(FallbackChartType(queryData, chartType), queryData,
                           <<[k |-> "xAxisKey", v |-> xAxisKey],
                             [k |-> "title",
                              v |-> Str("Data Analysis for \"" \o nlQuery \o "\"")],
                             [k |-> "showGrid", v |-> True],
                             [k |-> "showTooltip", v |-> True],
                             [k |-> "legendPosition", v |-> Str("bottom")]>>,
                           <<>>))

generateOptimizedChart(queryData, nlQuery, chartType, reply) ==
    IF Len(queryData) = 0 THEN Thrown
    ELSE IF reply.kind = "parsed" /\ HasRequiredFields(reply.chartConfig)
    THEN Returned(DesignedChart(reply.chartConfig))
    ELSE FallbackChart(queryData, nlQuery, chartType)

----------------------------------------------------------------------------
(* State                                                                   *)

VARIABLES
    pc,                  \* the step the modelled call has reached
    userQuery,           \* the natural-language query
    intent,              \* generateSqlQuery, buildSqlQuery: the intent of the query
    sqlResult,           \* generateSqlQuery: the value it resolved to
    built,               \* buildSqlQuery: the statement it returned
    results,             \* queryResult.data: the rows the statement returned
    userWantsChart,      \* the assistant called generate_graph_data itself
    needsVisualization,  \* the decision of shouldCreateVisualization
    chartData,           \* the chart handed to prepareChartDataForFrontend
    finalChartData,      \* the chart prepareChartDataForFrontend returned
    secondPass,          \* prepareChartDataForFrontend of finalChartData
    body,                \* POST: the request body
    content,             \* POST: how the call to the assistant settled, response.content
    queryResult,         \* POST: what executeNaturalLanguageQuery resolved to
    toolUseContent,      \* POST: the tool use handed to the response
    textResponse,        \* POST: the text of the text block
    httpResponse,        \* POST: the response the handler returned
    llmCalls,            \* POST: messages.create calls issued so far
    dbQueries,           \* POST: statements sent to the database so far
    pending,             \* POST: calls issued and not yet settled
    pool,                \* db.ts: the module variable pool
    callers,             \* getPool: where each call stands
    constructed,         \* getPool: ConnectionPool objects constructed so far
    listening,           \* getPool: pools that carry the error handler
    poolErrors,          \* getPool: pool-level errors raised so far
    lastError            \* getPool: the pool that raised the last error, the pool it found

sqlVars == <<intent, sqlResult, built>>

chartVars == <<results, userWantsChart, needsVisualization, chartData, finalChartData,
               secondPass>>

postVars == <<body, content, queryResult, toolUseContent, textResponse, httpResponse,
              llmCalls, dbQueries, pending>>

poolVars == <<pool, callers, constructed, listening, poolErrors, lastError>>

vars == <<pc, userQuery, sqlVars, chartVars, postVars, poolVars>>

NoSqlResult ==
    [success |-> FALSE, sql |-> "", params |-> <<>>, explanation |-> "", error |-> ""]

\* the chart variables before the answer to a query is charted
NoChartYet ==
    /\ results = <<>>
    /\ userWantsChart = FALSE
    /\ needsVisualization = FALSE
    /\ chartData = NullChart
    /\ finalChartData = NullChart
    /\ secondPass = NullChart

\* no tool use: toolUseContent is null
NoToolUse == [isNull |-> TRUE, input |-> NullChart]

\* a generate_graph_data tool use with the input
ToolUse(input) == [isNull |-> FALSE, input |-> input]

NoBody == [parses |-> FALSE, messages |-> "missing", model |-> "missing", fileData |-> "none"]

\* rejected names the error the call was rejected with, "" when it resolved
NoContent == [rejected |-> "", text |-> Undefined, queries |-> <<>>, graphs |-> <<>>]

NoQueryResult == [success |-> FALSE, error |-> ""]

NoResponse ==
    [status |-> 0, content |-> "", hasToolUse |-> FALSE, toolUse |-> NoToolUse,
     chartData |-> NullChart, error |-> ""]

\* the request variables outside a request
NoRequestYet ==
    /\ body = NoBody
    /\ content = NoContent
    /\ queryResult = NoQueryResult
    /\ toolUseContent = NoToolUse
    /\ textResponse = ""
    /\ httpResponse = NoResponse
    /\ llmCalls = 0
    /\ dbQueries = 0
    /\ pending = {}

\* the pool variables of a process that never asked for the pool
NoPoolYet ==
    /\ pool = 0
    /\ callers = <<>>
    /\ constructed = 0
    /\ listening = {}
    /\ poolErrors = 0
    /\ lastError = [by |-> 0, held |-> 0]

----------------------------------------------------------------------------
(* Bounds and inputs                                                       *)

\* most filter phrases one query carries
MaxFilterPhrases == 2

\* most selected columns of an intent handed to buildSqlQuery
MaxSelected == 2

\* most GROUP BY items of an intent handed to buildSqlQuery
MaxGroupBy == 2

\* the sequences over S of length 0..n
RECURSIVE SeqsUpTo(_, _)
SeqsUpTo(S, n) ==
    IF n = 0 THEN {<<>>}
    ELSE LET shorter == SeqsUpTo(S, n - 1)
         IN shorter \cup {Append(q, x) : q \in {r \in shorter : Len(r) = n - 1}, x \in S}

\* the sequences over S of length 0..n that repeat no element
DistinctSeqsUpTo(S, n) ==
    {q \in SeqsUpTo(S, n) : \A i, j \in 1..Len(q) : q[i] = q[j] => i = j}

QueryHeads ==
    {"total sales", "Total quantity", "total unit_price", "show me revenue trend",
     "average unit_price", "how many orders", "total material_quantity of product",
     "vehicle list", "how many vehicle records by country", "total material_cost"}

QueryGroups == {"", " by product", " by month"}

FilterPhrases == {" where country is nz,", " with quantity > 5,", " in north region,"}

TimePhrases == {"", " between 2024-01-01 and 2024-03-31", " since 2024/1/5", " last month"}

QueryTails == {"", " sort by quantity desc top 5"}

\* the filter phrases of one query, in their order, as one text
RECURSIVE Concat(_)
Concat(seq) == IF Len(seq) = 0 THEN "" ELSE Head(seq) \o Concat(Tail(seq))

Queries ==
    {h \o g \o Concat(f) \o t \o e :
        h \in QueryHeads, g \in QueryGroups,
        f \in DistinctSeqsUpTo(FilterPhrases, MaxFilterPhrases),
        t \in TimePhrases, e \in QueryTails}

\* wall clock dates the relative time phrases are resolved against
Todays == {[year |-> 2024, month |-> 1], [year |-> 2024, month |-> 3]}

SelectablePool ==
    {SelCol("sales_data", "quantity", "total_quantity", "SUM"),
     SelCol("sales_data", "product_name", "product_name", ""),
     SelCol("sales_data", "COUNT(*)", "record_count", "COUNT")}

GroupItemPool ==
    {"sales_data.product_name", "sales_data.quantity",
     MonthExpr("sales_data"), YearExpr("sales_data"), QuarterExpr("sales_data")}

SortingPool ==
    {NoSorting,
     [field |-> "sales_data.sales_date", direction |-> "DESC"],
     [field |-> "sales_data.product_name", direction |-> "ASC"],
     [field |-> "SUM(sales_data.quantity)", direction |-> "DESC"]}

BuildIntents ==
    {[mainTable |-> "sales_data", joinTable |-> j, selectedColumns |-> c,
      needsAggregation |-> HasAggregates(c), groupBy |-> g, filters |-> f,
      timeFilters |-> <<>>, sorting |-> s, limit |-> NoLimit] :
        j \in {"", "product_design"},
        c \in SeqsUpTo(SelectablePool, MaxSelected),
        g \in SeqsUpTo(GroupItemPool, MaxGroupBy),
        f \in {<<>>, <<Filter("sales_data.country", "=", Str("nz"))>>},
        s \in SortingPool}

----------------------------------------------------------------------------
(* generateSqlQuery as a call: the query arrives, the call resolves        *)

InitSql ==
    /\ pc = "idle"
    /\ userQuery \in Queries
    /\ intent = NoIntent
    /\ sqlResult = NoSqlResult
    /\ built = ""
    /\ NoChartYet
    /\ NoRequestYet
    /\ NoPoolYet

\* the health check succeeds and the statement is generated
GenerateSqlQuery ==
    /\ pc = "idle"
    /\ \E analysed \in {AnalysedIntent(userQuery)}, today \in Todays, zoneAhead \in BOOLEAN :
          /\ intent' = WithTimeFilters(userQuery, analysed, today, zoneAhead)
          /\ sqlResult' = ResultOf(intent')
    /\ pc' = "generated"
    /\ UNCHANGED <<postVars, poolVars, userQuery, built, chartVars>>

\* the health check fails
GenerateSqlQueryNoDb ==
    /\ pc = "idle"
    /\ sqlResult' = generateSqlQuery(userQuery, FALSE, CHOOSE d \in Todays : TRUE, FALSE)
    /\ pc' = "failed"
    /\ UNCHANGED <<postVars, poolVars, userQuery, intent, built, chartVars>>

NextSql == GenerateSqlQuery \/ GenerateSqlQueryNoDb

SpecSql == InitSql /\ [][NextSql]_vars

----------------------------------------------------------------------------
(* buildSqlQuery and generateExplanation as pure functions of the intent   *)

InitBuild ==
    /\ pc = "intent"
    /\ userQuery = ""
    /\ intent \in BuildIntents
    /\ sqlResult = NoSqlResult
    /\ built = ""
    /\ NoChartYet
    /\ NoRequestYet
    /\ NoPoolYet

BuildSqlQuery ==
    /\ pc = "intent"
    /\ built' = buildSqlQuery(intent.mainTable, intent.joinTable, intent.selectedColumns,
                              intent.needsAggregation, intent.groupBy,
                              intent.filters \o intent.timeFilters,
                              intent.sorting, intent.limit)
    /\ pc' = "built"
    /\ UNCHANGED <<postVars, poolVars, userQuery, intent, sqlResult, chartVars>>

\* the explanation of the statement, written from the same intent
GenerateExplanation ==
    /\ pc = "built"
    /\ sqlResult' = [sqlResult EXCEPT !.explanation =
            generateExplanation(intent.mainTable, intent.joinTable, intent.selectedColumns,
                                intent.needsAggregation, intent.groupBy,
                                intent.filters \o intent.timeFilters,
                                intent.sorting, intent.limit)]
    /\ pc' = "explained"
    /\ UNCHANGED <<postVars, poolVars, userQuery, intent, built, chartVars>>

NextBuild == BuildSqlQuery \/ GenerateExplanation

SpecBuild == InitBuild /\ [][NextBuild]_vars

----------------------------------------------------------------------------
(* Answering a query: the rows of a statement are charted                  *)

\* most columns of a result row
MaxColumns == 3

\* the row counts of a result
RowCounts == {1, 2, 3, 4, 5, 11}

\* the columns result rows are made of: a name and the kind of its values
ColumnPool ==
    <<[name |-> "product_name", kind |-> "text"],
      [name |-> "total_quantity", kind |-> "number"],
      [name |-> "Unit Price", kind |-> "number"],
      [name |-> "month", kind |-> "month"],
      [name |-> "store_id", kind |-> "number"],
      [name |-> "sales_date", kind |-> "day"],
      [name |-> "discount_percent", kind |-> "number or null"]>>

Labels == <<"North", "South West", "north", "East", "West">>

\* the value of a column of the kind in the i-th row
ValueOfKind(kind, i) ==
    CASE kind = "number" -> Num(10 * i)
      [] kind = "number or null" -> IF i = 1 THEN Null ELSE Num(10 * i)
      [] kind = "text" -> Str(Labels[((i - 1) % Len(Labels)) + 1])
      [] kind = "month" -> Str("2024-" \o Pad2(i))
      [] kind = "day" -> Str("2024-03-" \o Pad2(i))
      [] kind = "quarter" -> Str("2024-Q" \o ToString(((i - 1) % 4) + 1))
      [] kind = "week" -> Str("2024-" \o ToString(i))
      [] OTHER -> ObjVal("Date")

\* n rows over the columns, a sequence of [name, kind]
RowsOver(columns, n) ==
    [i \in 1..n |->
        [j \in 1..Len(columns) |->
            [k |-> columns[j].name, v |-> ValueOfKind(columns[j].kind, i)]]]

\* the columns of the pool at the positions, in their order
RECURSIVE ColumnsAt(_, _)
ColumnsAt(positions, from) ==
    IF from > Len(ColumnPool) THEN <<>>
    ELSE (IF from \in positions THEN <<ColumnPool[from]>> ELSE <<>>)
         \o ColumnsAt(positions, from + 1)

\* the results a statement written by the assistant returns
ResultSets ==
    {RowsOver(ColumnsAt(positions, 1), n) :
        positions \in {P \in SUBSET (1..Len(ColumnPool)) :
                          Cardinality(P) >= 1 /\ Cardinality(P) <= MaxColumns},
        n \in RowCounts}

\* the kind of the values the database returns for a column of the SELECT list
KindOfSelected(col) ==
    IF col.aggregate # "" THEN "number"
    ELSE IF Includes(col.columnName, "'yyyy-MM-dd'") THEN "day"
    ELSE IF Includes(col.columnName, "'yyyy-MM'") THEN "month"
    ELSE IF Includes(col.columnName, "QUARTER") THEN "quarter"
    ELSE IF Includes(col.columnName, "WEEK") THEN "week"
    ELSE IF Includes(col.columnName, "(") THEN "number"
    ELSE LET found == FindColumn(schemas[col.tableName], ToLowerCase(col.columnName))
         IN IF Len(found) = 0 THEN "text"
            ELSE IF IsNumericType(found[1]) THEN "number"
            ELSE IF found[1].type = "date" THEN "date"
            ELSE "text"

\* the results the generated statement returns: one column per item of its
\* SELECT list, named by the alias
StatementRows(it, n) ==
    LET columnsToSelect == ColumnsToSelect(it.selectedColumns, it.groupBy)
    IN RowsOver([j \in 1..Len(columnsToSelect) |->
                    [name |-> columnsToSelect[j].displayName,
                     kind |-> KindOfSelected(columnsToSelect[j])]], n)

ChartQueries ==
    {"total sales by product", "show me revenue trend by month", "sales distribution",
     "list orders", "Top 5 products", "top 2 countries by sales", "highest orders",
     "stop 5 orders"}

\* charts the assistant writes in a generate_graph_data call over the rows
GraphToolCharts(rows) ==
    LET first == rows[1][1].k
        last == rows[1][Len(rows[1])].k
        series == <<[k |-> last,
                     v |-> <<[k |-> "dataKey", v |-> Str(last)],
                             [k |-> "name", v |-> Str("Series")],
                             [k |-> "color", v |-> Str("#000000")]>>]>>
        labelled == <<[k |-> "series", v |-> <<[k |-> "label", v |-> Str("Series")]>>]>>
    IN {Chart(Str("bar"), rows,
              <<[k |-> "xAxisKey", v |-> Str(first)], [k |-> "title", v |-> Str("Chart")]>>,
              series),
        Chart(Str("pie"), rows,
              <<[k |-> "xAxisKey", v |-> Str(first)], [k |-> "totalLabel", v |-> Str("Sum")],
                [k |-> "margin", v |-> ObjVal("{top: 0}")]>>,
              labelled),
        Chart(Str("pie"), rows,
              <<[k |-> "xAxisKey", v |-> Str("")], [k |-> "title", v |-> Str("")]>>, <<>>),
        Chart(Str("line"), rows, <<[k |-> "xAxisKey", v |-> Str("period")]>>,
              <<[k |-> "series", v |-> <<[k |-> "dataKey", v |-> Str("revenue")],
                                         [k |-> "color", v |-> Str("")]>>]>>),
        [Chart(Undefined, rows, <<>>, <<>>) EXCEPT !.hasConfig = FALSE,
                                                    !.hasChartConfig = FALSE],
        [Chart(Str("bar"), <<>>, <<>>, <<>>) EXCEPT !.hasData = FALSE],
        Chart(Str("bar"), <<>>, <<[k |-> "xAxisKey", v |-> Str(first)]>>, series)}

InitAnswer ==
    /\ pc = "idle"
    /\ userQuery \in ChartQueries
    /\ intent = NoIntent
    /\ sqlResult = NoSqlResult
    /\ built = ""
    /\ results = <<>>
    /\ userWantsChart \in BOOLEAN
    /\ needsVisualization = FALSE
    /\ chartData = NullChart
    /\ finalChartData = NullChart
    /\ secondPass = NullChart
    /\ NoRequestYet
    /\ NoPoolYet

\* the generated statement is executed and returns rows
ExecuteGeneratedQuery ==
    /\ pc = "generated"
    /\ \E n \in RowCounts : results' = StatementRows(intent, n)
    /\ pc' = "rows"
    /\ UNCHANGED <<postVars, poolVars, userQuery, sqlVars, userWantsChart, needsVisualization, chartData,
                   finalChartData, secondPass>>

\* a statement the assistant wrote itself is executed and returns rows
ExecuteNaturalLanguageQuery ==
    /\ pc = "idle"
    /\ results' \in ResultSets
    /\ pc' = "rows"
    /\ UNCHANGED <<postVars, poolVars, userQuery, sqlVars, userWantsChart, needsVisualization, chartData,
                   finalChartData, secondPass>>

ShouldCreateVisualization ==
    /\ pc = "rows"
    /\ needsVisualization' = shouldCreateVisualization(results, userQuery, userWantsChart)
    /\ pc' = IF needsVisualization' THEN "visualize" ELSE "skipped"
    /\ UNCHANGED <<postVars, poolVars, userQuery, sqlVars, results, userWantsChart, chartData, finalChartData,
                   secondPass>>

\* the chart is built from the rows
PrepareDataForVisualization ==
    /\ pc = "visualize"
    /\ \E zoneBehind \in BOOLEAN :
          chartData' = prepareDataForVisualization(results, userQuery, zoneBehind)
    /\ pc' = "built chart"
    /\ UNCHANGED <<postVars, poolVars, userQuery, sqlVars, results, userWantsChart, needsVisualization,
                   finalChartData, secondPass>>

\* the assistant answers with a generate_graph_data call only
GenerateGraphData ==
    /\ pc = "idle"
    /\ userWantsChart
    /\ \E rows \in {r \in ResultSets : Len(r) = 2} : chartData' \in GraphToolCharts(rows)
    /\ pc' = "tool chart"
    /\ UNCHANGED <<postVars, poolVars, userQuery, sqlVars, results, userWantsChart, needsVisualization,
                   finalChartData, secondPass>>

PrepareChartDataForFrontend ==
    /\ pc \in {"built chart", "tool chart"}
    /\ finalChartData' = prepareChartDataForFrontend(chartData)
    /\ pc' = "final"
    /\ UNCHANGED <<postVars, poolVars, userQuery, sqlVars, results, userWantsChart, needsVisualization,
                   chartData, secondPass>>

\* the pass applied to its own result
PrepareChartDataForFrontendAgain ==
    /\ pc = "final"
    /\ ~finalChartData.isNull
    /\ secondPass' = prepareChartDataForFrontend(finalChartData)
    /\ pc' = "again"
    /\ UNCHANGED <<postVars, poolVars, userQuery, sqlVars, results, userWantsChart, needsVisualization,
                   chartData, finalChartData>>

NextAnswer ==
    \/ GenerateSqlQuery
    \/ ExecuteGeneratedQuery
    \/ ExecuteNaturalLanguageQuery
    \/ ShouldCreateVisualization
    \/ PrepareDataForVisualization
    \/ GenerateGraphData
    \/ PrepareChartDataForFrontend
    \/ PrepareChartDataForFrontendAgain

SpecAnswer == InitAnswer /\ [][NextAnswer]_vars

----------------------------------------------------------------------------
(* Properties of buildSqlQuery and generateSqlQuery                        *)

\* position of the first occurrence of p in q, 0 for none
IndexOf(q, p) ==
    LET at == {i \in 1..(Len(q) - Len(p) + 1) : LitAt(q, i, p)}
    IN IF at = {} THEN 0 ELSE Min(at)

\* the text of the SELECT list of a statement
SelectListOf(sql) == SubSeq(sql, Len("SELECT ") + 1, IndexOf(sql, " FROM ") - 1)

\* the SELECT list holds the GROUP BY item: a column reference under some alias, a
\* function expression under the alias synthesized for it
InSelectList(sql, groupItem) ==
    LET list == ", " \o SelectListOf(sql) \o ", "
    IN IF Includes(groupItem, "(")
       THEN Includes(list, ", " \o groupItem \o " AS " \o GroupAlias(groupItem) \o ", ")
       ELSE Includes(list, ", " \o groupItem \o " AS ")

Placeholders(sql) == {i \in 1..Len(sql) : Ch(sql, i) = "?"}

\* the position of the i-th placeholder, left to right
PlaceholderAt(sql, i) ==
    CHOOSE p \in Placeholders(sql) : Cardinality({r \in Placeholders(sql) : r < p}) = i - 1

\* the text in front of position p ends with the text
EndsAt(sql, p, text) == LitAt(sql, p - Len(text), text)

\* C2: the statement generated for N filters, the non-time filters followed by the
\* time filters, holds exactly N placeholders, and the parameter array holds N
\* values, the i-th being the value of the filter whose condition holds the i-th
\* placeholder
C2_PlaceholdersMatchParams ==
    pc = "generated" =>
        LET allFilters == intent.filters \o intent.timeFilters
        IN /\ Cardinality(Placeholders(sqlResult.sql)) = Len(allFilters)
           /\ Len(sqlResult.params) = Len(allFilters)
           /\ \A i \in 1..Len(allFilters) :
                 /\ sqlResult.params[i] = allFilters[i].value
                 /\ EndsAt(sqlResult.sql, PlaceholderAt(sqlResult.sql, i),
                           allFilters[i].field \o " " \o allFilters[i].operator \o " ")

\* a statement with non-time filters and time filters was generated
C2_Witness ==
    /\ pc = "generated"
    /\ Len(intent.filters) >= 2
    /\ Len(intent.timeFilters) >= 2
    /\ Len(sqlResult.params) = Len(intent.filters) + Len(intent.timeFilters)

\* the selected columns that are SUM of the column of the main table
SumsOf(selected, mainTable, col) ==
    {i \in 1..Len(selected) :
        /\ selected[i].aggregate = "SUM"
        /\ selected[i].tableName = mainTable
        /\ selected[i].columnName = col.dbName}

\* the numeric columns of the main table the query names
NamedNumericColumns(query, mainTable) ==
    {j \in 1..Len(schemas[mainTable].columns) :
        /\ IsNumericType(schemas[mainTable].columns[j])
        /\ Includes(ToLowerCase(query), ToLowerCase(schemas[mainTable].columns[j].name))}

\* C7: for a query that contains "total" and the name of a numeric column of the
\* selected main table, the selected columns of the generated intent hold exactly
\* one SUM aggregate on that column
C7_OneSumPerNamedColumn ==
    (pc = "generated" /\ Includes(ToLowerCase(userQuery), "total"))
        => \A j \in NamedNumericColumns(userQuery, intent.mainTable) :
              Cardinality(SumsOf(intent.selectedColumns, intent.mainTable,
                                 schemas[intent.mainTable].columns[j])) = 1

\* a query with "total" that names two numeric columns was analysed
C7_Witness ==
    /\ pc = "generated"
    /\ Includes(ToLowerCase(userQuery), "total")
    /\ Cardinality(NamedNumericColumns(userQuery, intent.mainTable)) >= 2
    /\ HasAggregate(intent.selectedColumns, "SUM")

\* C21: for every intent, the statement buildSqlQuery renders holds an ORDER BY
\* clause if and only if the explanation generateExplanation writes holds the
\* "results are ordered by" sentence
C21_OrderByIffExplained ==
    pc = "explained" =>
        (Includes(built, " ORDER BY ")
            <=> Includes(sqlResult.explanation, ". The results are ordered by "))

\* an aggregating intent sorted on a column that only its GROUP BY list admits was
\* rendered and explained, both with the ordering
C21_Witness ==
    /\ pc = "explained"
    /\ HasAggregates(intent.selectedColumns)
    /\ intent.sorting # NoSorting
    /\ ~Includes(intent.sorting.field, "(")
    /\ Includes(built, " ORDER BY ")
    /\ Includes(sqlResult.explanation, ". The results are ordered by ")

\* the statement holds an ORDER BY clause
Ordered(sql) == Includes(sql, " ORDER BY ")

\* the item is one of the GROUP BY items
InGroupBy(groupBy, item) == \E i \in 1..Len(groupBy) : groupBy[i] = item

\* C22: a statement generated with at least one aggregate column holds an ORDER BY
\* clause only if the sort field is an aggregate expression or one of the items of
\* the GROUP BY list, for an explicit sort as for the default descending date
C22_OrderByGroupedOrAggregated ==
    (pc = "generated" /\ HasAggregates(intent.selectedColumns) /\ Ordered(sqlResult.sql))
        => \/ Includes(intent.sorting.field, "(")
           \/ InGroupBy(intent.groupBy, intent.sorting.field)

\* the operators of the closed set
FilterOperators == {"=", "LIKE", ">", "<", ">=", "<="}

\* the field is <table>.<column>, the column one of the table in the catalog; column
\* names are compared without regard to case, as the database compares them
IsCatalogField(field, tables) ==
    LET parts == Split(field, ".")
    IN /\ Len(parts) = 2
       /\ parts[1] \in tables
       /\ FindColumn(schemas[parts[1]], ToLowerCase(parts[2])) # <<>>

\* C23: every filter determineFilters and extractTimeFilters produce for a query has
\* an operator of the closed set and a field <table>.<column>, the table the main or
\* the join table and the column a column of that table in the schema catalog
C23_FiltersFromCatalog ==
    pc = "generated" =>
        \A i \in 1..Len(intent.filters \o intent.timeFilters) :
            LET f == (intent.filters \o intent.timeFilters)[i]
            IN /\ f.operator \in FilterOperators
               /\ IsCatalogField(f.field, {intent.mainTable, intent.joinTable} \ {""})

\* the display aliases of the SELECT list, in its order
AliasesOf(columnsToSelect) ==
    [i \in 1..Len(columnsToSelect) |-> columnsToSelect[i].displayName]

\* the selected column refers to a numeric column of its table in the catalog
RefersToNumeric(col) ==
    /\ col.tableName \in DOMAIN schemas
    /\ \E i \in 1..Len(schemas[col.tableName].columns) :
          /\ schemas[col.tableName].columns[i].dbName = col.columnName
          /\ IsNumericType(schemas[col.tableName].columns[i])

\* C24: in every generated statement the display aliases of the rendered SELECT list
\* are pairwise distinct, every item of the list is rendered under its alias, and
\* every selected column with aggregate SUM or AVG refers to a numeric schema column
C24_AliasesDistinctSumsNumeric ==
    pc = "generated" =>
        LET cols == ColumnsToSelect(intent.selectedColumns, intent.groupBy)
            aliases == AliasesOf(cols)
        IN /\ \A i, j \in 1..Len(aliases) : aliases[i] = aliases[j] => i = j
           /\ \A i \in 1..Len(cols) :
                 Includes(", " \o SelectListOf(sqlResult.sql) \o ", ",
                          " AS " \o aliases[i] \o ", ")
           /\ \A i \in 1..Len(intent.selectedColumns) :
                 intent.selectedColumns[i].aggregate \in {"SUM", "AVG"}
                     => RefersToNumeric(intent.selectedColumns[i])

\* a statement with two SUM columns and a column added for its GROUP BY item was
\* generated
C24_Witness ==
    /\ pc = "generated"
    /\ Cardinality({i \in 1..Len(intent.selectedColumns) :
                       intent.selectedColumns[i].aggregate = "SUM"}) >= 2
    /\ Len(intent.groupBy) > 0
    /\ Len(ColumnsToSelect(intent.selectedColumns, intent.groupBy))
           > Len(intent.selectedColumns)

\* the literal dates a query of the inputs holds, in their order, written with
\* dashes; the relative phrases hold none
LiteralDatesOf(query) ==
    IF Includes(query, " between 2024-01-01 and 2024-03-31")
    THEN <<"2024-01-01", "2024-03-31">>
    ELSE IF Includes(query, " since 2024/1/5") THEN <<"2024-1-5">>
    ELSE <<>>

RelativePhrases ==
    {"last month", "previous month", "this month", "current month",
     "last year", "previous year", "this year", "current year"}

\* C25: for a query with two literal dates d1, d2 and no relative time phrase the
\* time filters are exactly sales_date >= d1 and sales_date <= d2 on the main table,
\* in that order; for one literal date d exactly sales_date >= d; and the time
\* filters come after all other filters in the WHERE clause and in the parameters
C25_LiteralDatesBound ==
    (pc = "generated" /\ ~\E p \in RelativePhrases : Includes(ToLowerCase(userQuery), p))
        => LET dates == LiteralDatesOf(userQuery)
               field == intent.mainTable \o ".sales_date"
               others == Len(intent.filters)
               times == intent.timeFilters
           IN /\ Len(dates) = 2 =>
                    times = <<Filter(field, ">=", Str(dates[1])),
                              Filter(field, "<=", Str(dates[2]))>>
              /\ Len(dates) = 1 => times = <<Filter(field, ">=", Str(dates[1]))>>
              /\ Len(sqlResult.params) = others + Len(times)
              /\ \A k \in 1..Len(times) :
                    /\ sqlResult.params[others + k] = times[k].value
                    /\ EndsAt(sqlResult.sql, PlaceholderAt(sqlResult.sql, others + k),
                              field \o " " \o times[k].operator \o " ")

\* a statement for a query with two literal dates and two other filters was generated
C25_Witness ==
    /\ pc = "generated"
    /\ Len(LiteralDatesOf(userQuery)) = 2
    /\ Len(intent.filters) >= 2
    /\ Len(intent.timeFilters) = 2
    /\ Len(sqlResult.params) >= 4

\* the positions at which the text stands in the statement
Occurrences(sql, text) == {i \in 1..Len(sql) : LitAt(sql, i, text)}

\* C28: generateSqlQuery infers at most one join table, infers one only for the main
\* table sales_data, and the join table is product_design; a query that mentions
\* "vehicle", unless it mentions both "product" and "material", has the main table
\* vehicle_master and no join, so sales_data is never joined to vehicle_master
C28_JoinOnlyProductDesign ==
    pc = "generated" =>
        /\ Cardinality(Occurrences(sqlResult.sql, " LEFT JOIN ")) <= 1
        /\ Includes(sqlResult.sql, " LEFT JOIN ") <=> intent.joinTable # ""
        /\ intent.joinTable # ""
              => intent.mainTable = "sales_data" /\ intent.joinTable = "product_design"
        /\ (/\ Includes(ToLowerCase(userQuery), "vehicle")
            /\ ~(/\ Includes(ToLowerCase(userQuery), "product")
                 /\ Includes(ToLowerCase(userQuery), "material")))
              => intent.mainTable = "vehicle_master" /\ intent.joinTable = ""

\* a statement that joins sales_data to product_design was generated
C28_Witness ==
    /\ pc = "generated"
    /\ intent.mainTable = "sales_data"
    /\ intent.joinTable = "product_design"
    /\ Includes(sqlResult.sql,
           " FROM sales_data AS sales_data LEFT JOIN unique_products_with_materials_masterlist")

\* what an item of the SELECT list without aggregate selects: the expression, or the
\* table-qualified column
SelectedExpression(col) ==
    IF col.tableName = "" \/ Includes(col.columnName, "(") THEN col.columnName
    ELSE col.tableName \o "." \o col.columnName

\* C29: in a generated statement whose SELECT list holds an aggregate column, every
\* column or expression of the SELECT list without aggregate is an item of the
\* GROUP BY list, compared exactly
C29_PlainColumnsGrouped ==
    (pc = "generated" /\ HasAggregates(intent.selectedColumns))
        => \A i \in 1..Len(ColumnsToSelect(intent.selectedColumns, intent.groupBy)) :
              LET col == ColumnsToSelect(intent.selectedColumns, intent.groupBy)[i]
              IN col.aggregate = ""
                    => /\ InGroupBy(intent.groupBy, SelectedExpression(col))
                       /\ Includes(sqlResult.sql, " GROUP BY ")

----------------------------------------------------------------------------
(* Properties of the chart passes                                          *)

\* the key is a string that names a property of every row of the data
OnEveryRow(data, key) ==
    /\ TypeOf(key) = "string"
    /\ \A i \in 1..Len(data) : HasKey(data[i], key.s)

\* C3: whenever prepareChartDataForFrontend returns a chart, config.xAxisKey and
\* the dataKey of every chartConfig entry name a property of every element of data
C3_KeysExistOnEveryRow ==
    (pc = "final" /\ ~finalChartData.isNull)
        => /\ OnEveryRow(finalChartData.data, Get(finalChartData.config, "xAxisKey"))
           /\ \A j \in 1..Len(finalChartData.chartConfig) :
                 OnEveryRow(finalChartData.data,
                            Get(finalChartData.chartConfig[j].v, "dataKey"))

\* C4: prepareChartDataForFrontend applied to a chart it returned returns a chart
\* equal to it in chartType, data, config and chartConfig
C4_SecondPassChangesNothing ==
    pc = "again"
        => /\ secondPass.isNull = finalChartData.isNull
           /\ secondPass.chartType = finalChartData.chartType
           /\ secondPass.data = finalChartData.data
           /\ secondPass.config = finalChartData.config
           /\ secondPass.chartConfig = finalChartData.chartConfig

\* the pass was applied again to a pie chart whose rows the first pass had rebuilt
C4_Witness ==
    /\ pc = "again"
    /\ finalChartData.chartType = Str("pie")
    /\ chartData.data # finalChartData.data
    /\ Get(finalChartData.config, "xAxisKey") = Str("segment")
    /\ secondPass.data = finalChartData.data

\* C5: every element of the data of a pie chart that prepareChartDataForFrontend
\* returns has a segment key and a value key
C5_PieRowsHaveSegmentAndValue ==
    (pc = "final" /\ ~finalChartData.isNull /\ finalChartData.chartType = Str("pie"))
        => \A i \in 1..Len(finalChartData.data) :
              /\ HasKey(finalChartData.data[i], "segment")
              /\ HasKey(finalChartData.data[i], "value")

\* every entry of the object is an entry of the other object, with the same value
EntriesKept(before, after) ==
    \A i \in 1..Len(before) :
        HasKey(after, before[i].k) /\ Get(after, before[i].k) = before[i].v

\* every entry of the object is an entry of the other object, with the same value
\* when the value was truthy
TruthyEntriesKept(before, after) ==
    \A i \in 1..Len(before) :
        /\ HasKey(after, before[i].k)
        /\ Truthy(before[i].v) => Get(after, before[i].k) = before[i].v

\* C6 as stated: every config key, every chartConfig series entry and every
\* property of every data row of the chart handed to prepareChartDataForFrontend
\* is in the chart it returns, with the same value
C6_NothingRemovedOrReplaced ==
    (pc = "final" /\ ~finalChartData.isNull)
        => /\ EntriesKept(chartData.config, finalChartData.config)
           /\ \A j \in 1..Len(chartData.chartConfig) :
                 /\ HasKey(finalChartData.chartConfig, chartData.chartConfig[j].k)
                 /\ EntriesKept(chartData.chartConfig[j].v,
                                Get(finalChartData.chartConfig, chartData.chartConfig[j].k))
           /\ Len(finalChartData.data) = Len(chartData.data)
           /\ \A i \in 1..Len(chartData.data) :
                 EntriesKept(chartData.data[i], finalChartData.data[i])

\* the pass rebuilds the rows of the chart: a pie chart whose rows are not all
\* {segment, value} and whose first row holds a number under another key than the
\* x-axis key, given or chosen
ReshapedAsPie(chart) ==
    LET given == Get(chart.config, "xAxisKey")
        xAxisKey == IF Truthy(given) THEN given ELSE ChosenXAxisKey(chart.data[1])
    IN /\ chart.chartType = Str("pie")
       /\ \E i \in 1..Len(chart.data) :
             ~(HasKey(chart.data[i], "segment") /\ HasKey(chart.data[i], "value"))
       /\ Truthy(xAxisKey)
       /\ Len(SeriesFields(chart.data[1], xAxisKey)) > 0

\* C6: prepareChartDataForFrontend removes no config key and replaces no truthy
\* config value but xAxisKey of a pie chart it rebuilds; of a chart it does not
\* rebuild as a pie it keeps every data row as it is and every chartConfig series
\* entry with every property of it, the truthy ones with their value
C6_TruthyFieldsKept ==
    (pc = "final" /\ ~finalChartData.isNull)
        => /\ \A i \in 1..Len(chartData.config) :
                 /\ HasKey(finalChartData.config, chartData.config[i].k)
                 /\ (/\ Truthy(chartData.config[i].v)
                     /\ ~(chartData.config[i].k = "xAxisKey" /\ ReshapedAsPie(chartData)))
                        => Get(finalChartData.config, chartData.config[i].k)
                              = chartData.config[i].v
           /\ ~ReshapedAsPie(chartData)
                 => /\ finalChartData.data = chartData.data
                    /\ \A j \in 1..Len(chartData.chartConfig) :
                          /\ HasKey(finalChartData.chartConfig, chartData.chartConfig[j].k)
                          /\ TruthyEntriesKept(chartData.chartConfig[j].v,
                                 Get(finalChartData.chartConfig,
                                     chartData.chartConfig[j].k))

\* a chart that is not rebuilt came back with the title and the series it had and
\* with fields it did not have
C6_Witness ==
    /\ pc = "final"
    /\ ~finalChartData.isNull
    /\ ~ReshapedAsPie(chartData)
    /\ Truthy(Get(chartData.config, "title"))
    /\ Get(finalChartData.config, "title") = Get(chartData.config, "title")
    /\ Len(chartData.chartConfig) > 0
    /\ Len(finalChartData.config) > Len(chartData.config)

----------------------------------------------------------------------------
(* Scenarios: a query is turned into a statement, its rows into a chart    *)

\* shouldCreateVisualization has decided on the rows
Decided == pc \in {"visualize", "skipped", "built chart", "final", "again"}

\* C8: for "show me revenue trend by month" generateSqlQuery groups by the month
\* truncation FORMAT(sales_data.sales_date, 'yyyy-MM'), which is in the GROUP BY
\* clause and in the SELECT list of the statement, and the chart built from the
\* rows of that statement is a line chart
C8_RevenueTrendByMonth ==
    (userQuery = "show me revenue trend by month" /\ intent # NoIntent)
        => /\ intent.groupBy = <<MonthExpr("sales_data")>>
           /\ Includes(sqlResult.sql, " GROUP BY " \o MonthExpr("sales_data"))
           /\ InSelectList(sqlResult.sql, MonthExpr("sales_data"))
           /\ pc = "built chart" => chartData.chartType = Str("line")

\* the first row holds exactly the columns, a number under each of the numbers and
\* a string under each of the texts
RowShape(rows, numbers, texts) ==
    /\ Len(rows) > 0
    /\ {rows[1][j].k : j \in 1..Len(rows[1])} = numbers \cup texts
    /\ \A j \in 1..Len(rows[1]) :
          TypeOf(rows[1][j].v) = IF rows[1][j].k \in numbers THEN "number" ELSE "string"

\* C9: for "total sales by product" generateSqlQuery selects sales_data without a
\* join, its only aggregate is SUM(sales_data.quantity) AS total_quantity, GROUP BY
\* is exactly sales_data.product_name, which is in the SELECT list; with more than
\* one row and no chart tool call shouldCreateVisualization returns true; and the
\* chart built for rows {total_quantity: number, product_name: string} is a bar chart
C9_TotalSalesByProduct ==
    userQuery = "total sales by product"
        => /\ intent # NoIntent
                 => /\ intent.mainTable = "sales_data"
                    /\ intent.joinTable = ""
                    /\ ~Includes(sqlResult.sql, " JOIN ")
                    /\ SelectSeq(intent.selectedColumns,
                                 LAMBDA col : col.aggregate # "")
                          = <<SelCol("sales_data", "quantity", "total_quantity", "SUM")>>
                    /\ Includes(SelectListOf(sqlResult.sql),
                                "SUM(sales_data.quantity) AS total_quantity")
                    /\ intent.groupBy = <<"sales_data.product_name">>
                    /\ EndsAt(sqlResult.sql, Len(sqlResult.sql) + 1,
                              " GROUP BY sales_data.product_name")
                    /\ InSelectList(sqlResult.sql, "sales_data.product_name")
           /\ (Decided /\ Len(results) > 1 /\ ~userWantsChart) => needsVisualization
           /\ (pc = "built chart" /\ RowShape(results, {"total_quantity"}, {"product_name"}))
                 => chartData.chartType = Str("bar")

\* the statement of "total sales by product" returned several rows, no chart tool
\* was called, and the chart was built
C9_Witness ==
    /\ userQuery = "total sales by product"
    /\ pc = "built chart"
    /\ intent.groupBy = <<"sales_data.product_name">>
    /\ ~userWantsChart
    /\ Len(results) > 1
    /\ RowShape(results, {"total_quantity"}, {"product_name"})
    /\ needsVisualization
    /\ chartData.chartType = Str("bar")

\* the query holds no visualization, ranking, " by " or chart-type keyword
PlainQuery(query) ==
    LET normalizedQuery == Trim(ToLowerCase(query))
    IN /\ ~StartsWith(normalizedQuery, "show") /\ ~StartsWith(normalizedQuery, "display")
       /\ ~Includes(normalizedQuery, "show me") /\ ~Includes(normalizedQuery, "visual")
       /\ ~IncludesAny(normalizedQuery, vizKeywords)
       /\ ~Includes(normalizedQuery, " by ")
       /\ ~IncludesAny(normalizedQuery, comparisonKeywords)
       /\ RankingMatch(normalizedQuery) = NoMatch
       /\ ~IncludesAny(normalizedQuery,
              <<"trend", "over time", "timeseries", "time series", "distribution",
                "breakdown", "proportion", "percentage", "share", "pie">>)

\* the columns of the first row prepareDataForVisualization counts as numeric
CountedNumeric(row) ==
    {j \in 1..Len(row) :
        /\ TypeOf(row[j].v) = "number"
        /\ ~Includes(ToLowerCase(row[j].k), "id")
        /\ row[j].k # "key"}

\* the columns of the first row prepareDataForVisualization counts as categorical
CountedCategorical(row) ==
    {j \in 1..Len(row) :
        /\ TypeOf(row[j].v) = "string"
        /\ ~Includes(ToLowerCase(row[j].k), "date")
        /\ ~IsTimeColumn(row[j].k)}

\* C10 as stated: for 5 rows with exactly two numeric columns, a query without
\* keywords and no chart tool call, shouldCreateVisualization returns true and the
\* chart built is a multibar chart
C10_TwoNumericColumnsMultibar ==
    (/\ PlainQuery(userQuery) /\ ~userWantsChart
     /\ Len(results) = 5 /\ Len(FieldsOfType(results[1], "number")) = 2)
        => /\ Decided => needsVisualization
           /\ pc = "built chart" => chartData.chartType = Str("multibar")

\* C10: for 5 rows with a categorical column and exactly two numeric columns, as
\* prepareDataForVisualization counts them, a query without keywords and no chart
\* tool call, shouldCreateVisualization returns true and the chart built is a
\* multibar chart
C10_CategoryAndTwoNumericColumnsMultibar ==
    (/\ PlainQuery(userQuery) /\ ~userWantsChart
     /\ Len(results) = 5
     /\ Cardinality(CountedNumeric(results[1])) = 2
     /\ CountedCategorical(results[1]) # {})
        => /\ Decided => needsVisualization
           /\ pc = "built chart" => chartData.chartType = Str("multibar")

\* a multibar chart was built for 5 rows with a categorical and two numeric columns
C10_Witness ==
    /\ pc = "built chart"
    /\ PlainQuery(userQuery) /\ ~userWantsChart
    /\ Len(results) = 5
    /\ Cardinality(CountedNumeric(results[1])) = 2
    /\ CountedCategorical(results[1]) # {}
    /\ needsVisualization
    /\ chartData.chartType = Str("multibar")

----------------------------------------------------------------------------
(* The decision list of the visualization selector                         *)

\* the text holds one of the words
HoldsOneOf(text, words) == \E w \in words : Includes(text, w)

\* the rules of the decision list in their priority order, each with whether it
\* fires and the result it gives; a numeric column holds a number or a text that
\* reads as one, the explicit count is the number that follows a ranking word
DecisionRules(rows, query, chartToolCall) ==
    LET text == Trim(ToLowerCase(query))
        names == {ToLowerCase(rows[1][j].k) : j \in 1..Len(rows[1])}
        count == RankingMatch(text)
        numeric == {j \in 1..Len(rows[1]) :
                       \/ TypeOf(rows[1][j].v) = "number"
                       \/ ParsesAsNumber(StringOf(rows[1][j].v))}
    IN << [fires |-> chartToolCall, result |-> TRUE],
          [fires |-> \/ StartsWith(text, "show") \/ StartsWith(text, "display")
                     \/ Includes(text, "show me") \/ Includes(text, "visual"),
           result |-> TRUE],
          [fires |-> HoldsOneOf(text, {"compare", "trend", "distribution", "chart", "graph"}),
           result |-> TRUE],
          [fires |-> /\ Includes(text, " by ")
                     /\ HoldsOneOf(text, {"sales", "revenue", "profit", "products",
                                          "performance", "data", "count", "total", "amount"})
                     /\ HoldsOneOf(text, {" by " \o c : c \in
                                             {"region", "country", "city", "product",
                                              "category", "month", "year", "quarter",
                                              "date", "day", "type"}})
                     /\ Len(rows) > 1,
           result |-> TRUE],
          [fires |-> HoldsOneOf(text, {"top", "bottom", "highest", "lowest", "most", "least",
                                       "compare", "comparison", "versus", "vs"}),
           result |-> IF count # NoMatch THEN ParseInt(count) > 3 ELSE Len(rows) > 3],
          [fires |-> Len(rows) <= 3, result |-> FALSE],
          [fires |-> \E n \in names : HoldsOneOf(n, {"date", "time", "month", "year"}),
           result |-> TRUE],
          [fires |-> \E n \in names : HoldsOneOf(n, {"type", "category", "region", "country",
                                                    "city", "product", "name"}),
           result |-> TRUE],
          [fires |-> Cardinality(numeric) > 1, result |-> TRUE],
          [fires |-> TRUE, result |-> FALSE] >>

\* the number of the first rule that fires
FirstRule(rules) == CHOOSE r \in 1..Len(rules) : rules[r].fires /\ \A s \in 1..(r - 1) : ~rules[s].fires

\* the decision list evaluated in priority order, first match wins
shouldVisualize(rows, query, chartToolCall) ==
    LET rules == DecisionRules(rows, query, chartToolCall) IN rules[FirstRule(rules)].result

C12_DistributionWordsForcePie ==
    (/\ pc = "built chart"
     /\ HoldsOneOf(ToLowerCase(userQuery),
                   {"distribution", "breakdown", "proportion", "percentage", "share", "pie"}))
        => chartData.chartType = Str("pie")

\* C13: prepareDataForVisualization returns null when the first row has no numeric
\* column, and never a chart with empty data or an empty xAxisKey
C13_NullWithoutValueColumn ==
    pc = "built chart"
        => /\ Len(FieldsOfType(results[1], "number")) = 0 => chartData.isNull
           /\ ~chartData.isNull
                 => /\ Len(chartData.data) > 0
                    /\ Truthy(Get(chartData.config, "xAxisKey"))

\* the columns of the first row prepareDataForVisualization detects as time columns
DetectedTime(row) == {j \in 1..Len(row) : IsTimeColumn(row[j].k)}

\* C26: when neither text override applies (no distribution word; no trend word
\* together with a time column) and the result has a detected time column and more
\* than 10 rows, prepareDataForVisualization chooses chart type line, whatever the
\* number of numeric and categorical columns
C26_LineForLongTimeResults ==
    (/\ pc = "built chart"
     /\ ~HoldsOneOf(ToLowerCase(userQuery),
                    {"distribution", "breakdown", "proportion", "percentage", "share", "pie"})
     /\ ~HoldsOneOf(ToLowerCase(userQuery),
                    {"trend", "over time", "timeseries", "time series"})
     /\ DetectedTime(results[1]) # {}
     /\ Len(results) > 10)
        => chartData.chartType = Str("line")

\* the rows that hold a value other than null in the j-th column
NonNullRows(rows, j) == {i \in 1..Len(rows) : TypeOf(rows[i][j].v) \notin {"object", "undefined"}}

\* the first value of the j-th column that is not null is a number, and the name of
\* the column neither holds "id" nor is "key"
FirstNonNullIsNumber(rows, j) ==
    /\ NonNullRows(rows, j) # {}
    /\ TypeOf(rows[Min(NonNullRows(rows, j))][j].v) = "number"
    /\ ~Includes(ToLowerCase(rows[1][j].k), "id")
    /\ rows[1][j].k # "key"

\* C27: prepareDataForVisualization classifies a column as numeric exactly when its
\* first non-null value over the rows is a number and its name neither holds "id"
\* nor is "key"; a column that is null in the first row and numeric in a later one
\* is numeric, so that the chart of rows with such a column has data
C27_NumericByFirstNonNull ==
    pc = "built chart" =>
        /\ \A j \in 1..Len(results[1]) :
              (j \in CountedNumeric(results[1])) <=> FirstNonNullIsNumber(results, j)
        /\ (\E j \in 1..Len(results[1]) : FirstNonNullIsNumber(results, j))
              => Len(chartData.data) > 0

----------------------------------------------------------------------------
(* POST: the request handler                                               *)

\* the model the handler destructures from the body: the default stands in
\* for a field the body does not have
ModelOf(b) ==
    CASE b.model = "missing" -> Str("claude-3-haiku-20240307")
      [] b.model = "null" -> Null
      [] b.model = "empty" -> Str("")
      [] OTHER -> Str("claude-3-5-sonnet-20240620")

\* the messages value is an array: !messages || !Array.isArray(messages) fails
MessagesAccepted(b) == b.messages = "array"

\* the file of the body is absent or is read without error
FileAccepted(b) == b.fileData \in {"none", "text"}

\* ValidationError that does not look at the model
ValidationErrorAnyModel(b) ==
    IF ~MessagesAccepted(b) THEN "Messages array is required"
    ELSE IF b.fileData = "no base64" THEN "No file data"
    ELSE IF ~FileAccepted(b) THEN "Failed to process file content"
    ELSE ""

\* the error of the 400 response the body is answered with, "" when it passes
ValidationError(b) ==
    IF ~MessagesAccepted(b) THEN "Messages array is required"
    ELSE IF ~Truthy(ModelOf(b)) THEN "Model selection is required"
    ELSE IF b.fileData = "no base64" THEN "No file data"
    ELSE IF ~FileAccepted(b) THEN "Failed to process file content"
    ELSE ""

\* val is a number or a string parseFloat reads a number from
IsNumericValue(val) ==
    \/ TypeOf(val) = "number"
    \/ (TypeOf(val) = "string" /\ ParsesAsNumber(val.s))

\* the response text holds String(v) of a numeric value of the rows
HasDataValues(responseText, queryData) ==
    \E i \in 1..Len(queryData) :
        \E j \in 1..Len(queryData[i]) :
            /\ IsNumericValue(queryData[i][j].v)
            /\ Includes(responseText, StringOf(queryData[i][j].v))

needsDataExplanation(responseText, queryData) ==
    IF Len(queryData) = 0 \/ responseText = "" THEN FALSE
    ELSE ~HasDataValues(responseText, queryData)

\* the follow-up call resolved with the explanation, or was rejected
getDataExplanation(originalResponse, explanation) ==
    IF explanation.rejected THEN originalResponse
    ELSE originalResponse \o "\n\n" \o explanation.text

\* text.match(/word\s+([^.]+)/i)[1], NoMatch when the text does not match
Captured(text, word) ==
    LET lower == ToLowerCase(text)
        starts == {i \in 1..Len(text) :
                      /\ LitAt(lower, i, word)
                      /\ i + Len(word) <= Len(text)
                      /\ IsSpace(Ch(text, i + Len(word)))
                      /\ RunEnd(text, i + Len(word), SpaceClass) <= Len(text)
                      /\ Ch(text, RunEnd(text, i + Len(word), SpaceClass)) # "."}
    IN IF starts = {} THEN NoMatch
       ELSE LET from == RunEnd(text, Min(starts) + Len(word), SpaceClass)
                dots == {j \in from..Len(text) : Ch(text, j) = "."}
            IN SubSeq(text, from, IF dots = {} THEN Len(text) ELSE Min(dots) - 1)

\* the query the handler infers for a chart the assistant wrote itself
InferredQuery(queryText) ==
    LET showing == Captured(queryText, "showing")
        heres == Captured(queryText, "here's")
        displaying == Captured(queryText, "displaying")
        visualizing == Captured(queryText, "visualizing")
    IN IF showing # NoMatch THEN showing
       ELSE IF heres # NoMatch THEN heres
       ELSE IF displaying # NoMatch THEN displaying
       ELSE IF visualizing # NoMatch THEN visualizing
       ELSE "Sales data visualization"

\* the last generate_graph_data tool use of the content, null without one
LastGraphTool(blocks) ==
    IF Len(blocks.graphs) = 0 THEN NoToolUse ELSE ToolUse(blocks.graphs[Len(blocks.graphs)])

\* ToolUseWithoutRows that passes the assistant's chart on
ToolUseWithoutRowsPassing(blocks) == LastGraphTool(blocks)

\* the tool use of a request whose query failed or returned no row
ToolUseWithoutRows(blocks) == NoToolUse

\* textContent?.text || ""
TextOf(blocks) == IF Truthy(blocks.text) THEN blocks.text.s ELSE ""

\* the tool use after the chart of the rows was generated
ToolUseOfRows(blocks, tool, chart) ==
    IF Len(blocks.graphs) > 0 THEN ToolUse(chart)
    ELSE IF ~chart.isNull THEN ToolUse(chart)
    ELSE tool

\* Claude's chart with the enhanced configuration, or as it was when the
\* enhancement threw
EnhancedToolUse(original, enhanced) ==
    IF enhanced.threw THEN ToolUse(original)
    ELSE ToolUse([enhanced.chart EXCEPT !.hasData = TRUE, !.data = original.data])

\* the calls the handler awaits
AwaitAssistant == "await anthropic.messages.create"

AwaitQuery == "await executeNaturalLanguageQuery"

AwaitExplanation == "await getDataExplanation"

AwaitEnhancedChart == "await generateOptimizedChart(originalData)"

AwaitChart == "await generateOptimizedChart(queryResult.data)"

(* Inputs *)

Bodies ==
    {NoBody}
    \cup {[parses |-> TRUE, messages |-> m, model |-> d, fileData |-> "none"] :
             m \in {"missing", "string", "array"},
             d \in {"missing", "null", "empty", "named"}}
    \cup {[parses |-> TRUE, messages |-> "array", model |-> "named", fileData |-> f] :
             f \in {"no base64", "undecodable"}}

\* rows the assistant writes itself in a generate_graph_data call
AssistantRows ==
    <<<<[k |-> "region", v |-> Str("Nowhere")], [k |-> "amount", v |-> Num(77)]>>>>

\* rows the chart-design call writes itself
InventedRows ==
    <<<<[k |-> "label", v |-> Str("Invented")], [k |-> "amount", v |-> Num(99)]>>>>

AssistantChart ==
    Chart(Str("bar"), AssistantRows,
          <<[k |-> "xAxisKey", v |-> Str("region")]>>,
          <<[k |-> "amount", v |-> <<[k |-> "dataKey", v |-> Str("amount")]>>]>>)

EmptyAssistantChart == Chart(Str("line"), <<>>, <<>>, <<>>)

AssistantTexts ==
    {Undefined, Str(""), Str("Here are the results."),
     Str("Chart showing sales of 10 units."), Str("Figures since 2024-01 follow.")}

AssistantQueries ==
    {<<>>}
    \cup {<<[query |-> q, sql |-> s]>> :
             q \in {"total sales by product", "list orders", "sales distribution"},
             s \in {"", "SELECT * FROM sales_data"}}

AssistantGraphs ==
    {<<>>, <<AssistantChart>>, <<EmptyAssistantChart>>,
     <<AssistantChart, EmptyAssistantChart>>, <<EmptyAssistantChart, AssistantChart>>}

AssistantContents ==
    {[rejected |-> "", text |-> t, queries |-> q, graphs |-> g] :
        t \in AssistantTexts, q \in AssistantQueries, g \in AssistantGraphs}

\* the results of the statements of the assistant
PostResultSets ==
    {RowsOver(ColumnsAt(positions, 1), n) :
        positions \in {{1}, {2}, {1, 2}, {2, 4}, {1, 2, 3}}, n \in {1, 2}}

\* what executeNaturalLanguageQuery resolves to: no statement, no pool, an
\* error of the database, or the rows
QueryOutcomes(sql) ==
    IF sql = ""
    THEN {[success |-> FALSE, error |-> "No SQL query provided", sent |-> FALSE,
           data |-> <<>>]}
    ELSE {[success |-> FALSE, error |-> "Failed to connect", sent |-> FALSE, data |-> <<>>],
          [success |-> FALSE, error |-> "Invalid column name", sent |-> TRUE, data |-> <<>>],
          [success |-> TRUE, error |-> "", sent |-> TRUE, data |-> <<>>]}
         \cup {[success |-> TRUE, error |-> "", sent |-> TRUE, data |-> rows] :
                  rows \in PostResultSets}

Explanations ==
    {[rejected |-> TRUE, text |-> ""], [rejected |-> FALSE, text |-> "The total is 10."]}

\* the replies of the chart-design call for the rows
DesignReplies(rows) ==
    LET xAxisKey == rows[1][1].k
        last == rows[1][Len(rows[1])].k
        config == <<[k |-> "xAxisKey", v |-> Str(xAxisKey)], [k |-> "title", v |-> Str("Chart")]>>
        series == <<[k |-> last, v |-> <<[k |-> "dataKey", v |-> Str(last)]>>]>>
    IN {DesignRejected, DesignUnparsable,
        DesignParsed(Chart(Str("bar"), rows, config, series)),
        DesignParsed(Chart(Str("pie"), rows, config, series)),
        DesignParsed(Chart(Str("bar"), InventedRows, config, series)),
        DesignParsed([Chart(Str("bar"), rows, config, <<>>) EXCEPT !.hasChartConfig = FALSE])}

(* The handler, from one await to the next *)

\* the handler returns the response
Responding(blocks, tool, text) ==
    /\ toolUseContent' = tool
    /\ textResponse' = text
    /\ finalChartData' = IF tool.isNull \/ tool.input.isNull THEN NullChart
                         ELSE prepareChartDataForFrontend(tool.input)
    /\ httpResponse' =
          [status |-> 200, content |-> text,
           hasToolUse |-> (Len(blocks.queries) + Len(blocks.graphs) > 0) \/ ~tool.isNull,
           toolUse |-> tool, chartData |-> finalChartData', error |-> ""]
    /\ pc' = "responded"
    /\ pending' = pending \ {pc}
    /\ UNCHANGED llmCalls

\* the handler returns an error response
Failing(status, error) ==
    /\ httpResponse' = [NoResponse EXCEPT !.status = status, !.error = error]
    /\ pc' = "responded"
    /\ pending' = pending \ {pc}
    /\ UNCHANGED <<toolUseContent, textResponse, finalChartData, llmCalls>>

\* the handler issues a call to the assistant and awaits it
Calling(call, tool, text) ==
    /\ toolUseContent' = tool
    /\ textResponse' = text
    /\ pc' = call
    /\ pending' = (pending \ {pc}) \cup {call}
    /\ llmCalls' = llmCalls + 1
    /\ UNCHANGED <<finalChartData, httpResponse>>

\* the handler looks for a chart tool use, decides on the visualization and
\* generates the chart or returns
Deciding(blocks, rows, nlQuery, tool, text) ==
    /\ userWantsChart' = (Len(blocks.graphs) > 0)
    /\ needsVisualization' = shouldCreateVisualization(rows, nlQuery, userWantsChart')
    /\ IF needsVisualization' THEN Calling(AwaitChart, tool, text)
       ELSE Responding(blocks, tool, text)

\* the errors the call to the assistant is rejected with
AssistantErrors == {"AuthenticationError", "APIConnectionError"}

\* the response the catch block of the handler returns for the error
CaughtStatus(name) == IF name = "AuthenticationError" THEN 401 ELSE 500

CaughtError(name) ==
    IF name = "AuthenticationError" THEN "Authentication Error" ELSE "Connection error."

InitPost ==
    /\ pc = "request"
    /\ userQuery = ""
    /\ intent = NoIntent
    /\ sqlResult = NoSqlResult
    /\ built = ""
    /\ NoChartYet
    /\ body \in Bodies
    /\ content = NoContent
    /\ queryResult = NoQueryResult
    /\ toolUseContent = NoToolUse
    /\ textResponse = ""
    /\ httpResponse = NoResponse
    /\ llmCalls = 0
    /\ dbQueries = 0
    /\ pending = {}
    /\ NoPoolYet

\* the body is read and validated; a body that passes is sent to the assistant
ReceiveRequest ==
    /\ pc = "request"
    /\ IF ~body.parses THEN Failing(CaughtStatus("SyntaxError"), "Unexpected end of JSON input")
       ELSE IF ValidationError(body) # "" THEN Failing(400, ValidationError(body))
       ELSE Calling(AwaitAssistant, NoToolUse, "")
    /\ UNCHANGED <<userQuery, sqlVars, chartData, results, userWantsChart,
                   needsVisualization, secondPass, body, content, queryResult, dbQueries,
                   poolVars>>

\* the call to the assistant is rejected
AssistantFails ==
    /\ pc = AwaitAssistant
    /\ \E name \in AssistantErrors :
          /\ content' = [NoContent EXCEPT !.rejected = name]
          /\ Failing(CaughtStatus(name), CaughtError(name))
    /\ UNCHANGED <<userQuery, sqlVars, chartData, results, userWantsChart,
                   needsVisualization, secondPass, body, queryResult, dbQueries,
                   poolVars>>

\* the assistant replies: its first query_sales_data tool use is executed;
\* without one its last chart is passed on
AssistantReplies ==
    /\ pc = AwaitAssistant
    /\ content' \in AssistantContents
    /\ IF Len(content'.queries) > 0
       THEN /\ userQuery' = content'.queries[1].query
            /\ toolUseContent' = NoToolUse
            /\ textResponse' = TextOf(content')
            /\ pc' = AwaitQuery
            /\ pending' = (pending \ {pc}) \cup {AwaitQuery}
            /\ UNCHANGED <<finalChartData, httpResponse, llmCalls>>
       ELSE /\ Responding(content', LastGraphTool(content'), TextOf(content'))
            /\ UNCHANGED userQuery
    /\ UNCHANGED <<sqlVars, chartData, results, userWantsChart, needsVisualization,
                   secondPass, body, queryResult, dbQueries, poolVars>>

\* the query resolved: without rows the handler returns; with rows the text is
\* grounded, or the assistant's own chart is enhanced, and the chart decided
QueryResolves ==
    /\ pc = AwaitQuery
    /\ \E outcome \in QueryOutcomes(content.queries[1].sql) :
          /\ queryResult' = [success |-> outcome.success, error |-> outcome.error]
          /\ results' = outcome.data
          /\ dbQueries' = IF outcome.sent THEN dbQueries + 1 ELSE dbQueries
          /\ IF ~(outcome.success /\ Len(outcome.data) > 0)
             THEN /\ Responding(content, ToolUseWithoutRows(content), textResponse)
                  /\ UNCHANGED <<userWantsChart, needsVisualization>>
             ELSE IF needsDataExplanation(textResponse, outcome.data)
             THEN /\ Calling(AwaitExplanation, toolUseContent, textResponse)
                  /\ UNCHANGED <<userWantsChart, needsVisualization>>
             ELSE IF Len(content.graphs) = 0
             THEN Deciding(content, outcome.data, userQuery, toolUseContent, textResponse)
             ELSE IF Len(LastGraphTool(content).input.data) > 0
             THEN /\ Calling(AwaitEnhancedChart, toolUseContent, textResponse)
                  /\ UNCHANGED <<userWantsChart, needsVisualization>>
             ELSE Deciding(content, outcome.data, userQuery, LastGraphTool(content),
                           textResponse)
    /\ UNCHANGED <<userQuery, sqlVars, chartData, secondPass, body, content, poolVars>>

\* the follow-up call settled: its explanation is appended to the text
ExplanationSettles ==
    /\ pc = AwaitExplanation
    /\ \E explanation \in Explanations :
          Deciding(content, results, userQuery, toolUseContent,
                   getDataExplanation(textResponse, explanation))
    /\ UNCHANGED <<userQuery, sqlVars, chartData, results, secondPass, body, content,
                   queryResult, dbQueries, poolVars>>

\* the chart-design call for the assistant's own chart settled
EnhancedChartSettles ==
    /\ pc = AwaitEnhancedChart
    /\ LET original == LastGraphTool(content).input
       IN \E reply \in DesignReplies(original.data) :
             Deciding(content, results, userQuery,
                      EnhancedToolUse(original,
                                      generateOptimizedChart(original.data,
                                                             InferredQuery(textResponse),
                                                             original.chartType, reply)),
                      textResponse)
    /\ UNCHANGED <<userQuery, sqlVars, chartData, results, secondPass, body, content,
                   queryResult, dbQueries, poolVars>>

\* the chart generated for the rows, by the chart-design call or, when
\* generateOptimizedChart threw, by prepareDataForVisualization
ChartOfRows(generated, rows, nlQuery, zoneBehind) ==
    IF generated.threw THEN prepareDataForVisualization(rows, nlQuery, zoneBehind)
    ELSE generated.chart

\* the chart type of the first generate_graph_data tool use, the hint
ChartTypeHint(blocks) ==
    IF Len(blocks.graphs) > 0 THEN blocks.graphs[1].chartType ELSE Undefined

\* the chart-design call for the rows settled and the handler returns
ChartSettles ==
    /\ pc = AwaitChart
    /\ \E reply \in DesignReplies(results) :
          \E generated \in {generateOptimizedChart(results, userQuery,
                                                   ChartTypeHint(content), reply)} :
             \E zoneBehind \in (IF generated.threw THEN BOOLEAN ELSE {FALSE}) :
                /\ chartData' = ChartOfRows(generated, results, userQuery, zoneBehind)
                /\ Responding(content, ToolUseOfRows(content, toolUseContent, chartData'),
                              textResponse)
    /\ UNCHANGED <<userQuery, sqlVars, results, userWantsChart, needsVisualization,
                   secondPass, body, content, queryResult, dbQueries, poolVars>>

NextPost ==
    \/ ReceiveRequest
    \/ AssistantFails
    \/ AssistantReplies
    \/ QueryResolves
    \/ ExplanationSettles
    \/ EnhancedChartSettles
    \/ ChartSettles

SpecPost == InitPost /\ [][NextPost]_vars

----------------------------------------------------------------------------
(* Claims about the request handler                                        *)

\* the handler returned the response of a request whose query returned rows
AnsweredWithRows ==
    /\ pc = "responded"
    /\ httpResponse.status = 200
    /\ queryResult.success
    /\ Len(results) > 0

\* the rows were written by the assistant or by the chart-design call
LlmAuthored(data) == data \in {AssistantRows, InventedRows}

\* C14: when the query of the assistant returned at least one row, the chart of
\* the response is computed from those rows: neither the tool use nor the
\* chartData of the response carries rows a call to the LLM wrote
C14_NoLlmAuthoredChartData ==
    AnsweredWithRows
        => /\ ~LlmAuthored(httpResponse.toolUse.input.data)
           /\ ~LlmAuthored(httpResponse.chartData.data)

\* C15: a request issues at most two calls to the LLM and at most one query to
\* the database, and never has two calls outstanding
C15_AtMostTwoLlmCalls ==
    /\ llmCalls <= 2
    /\ dbQueries <= 1
    /\ Cardinality(pending) <= 1

\* the text holds the decimal form of a number of the rows
HoldsNumberOf(text, rows) ==
    \E i \in 1..Len(rows) :
        \E j \in 1..Len(rows[i]) :
            TypeOf(rows[i][j].v) = "number" /\ Includes(text, StringOf(rows[i][j].v))

\* C16: when the query returned rows, the follow-up call is issued exactly when
\* the text of the assistant, an empty or missing text included, holds none of
\* the numbers of the rows, and what the call returns is appended to the text
C16_FollowUpIffUngrounded ==
    [][/\ (pc = AwaitQuery /\ queryResult'.success /\ Len(results') > 0)
           => ((pc' = AwaitExplanation) <=> ~HoldsNumberOf(TextOf(content), results'))
       /\ (pc = AwaitExplanation)
           => \E explanation \in Explanations :
                 /\ ~explanation.rejected
                 /\ textResponse' = textResponse \o "\n\n" \o explanation.text]_vars

\* the statuses of the failures the handler does not handle
StatusOfFailures ==
    /\ content.rejected = "AuthenticationError" => httpResponse.status = 401
    /\ (~body.parses \/ content.rejected \notin {"", "AuthenticationError"})
           => (httpResponse.status = 500 /\ httpResponse.error # "")

\* C17 as stated: a body without messages, with messages that are no array or
\* without a model field is answered with 400, an upstream authentication
\* error with 401 and any other unhandled failure with 500 and an error
C17_MissingModelRejected ==
    pc = "responded"
        => /\ (body.parses /\ (body.messages # "array" \/ body.model = "missing"))
                  => httpResponse.status = 400
           /\ StatusOfFailures

\* C17: a body without messages, with messages that are no array or with a
\* model field that is null or empty is answered with 400, an upstream
\* authentication error with 401 and any other unhandled failure with 500 and
\* an error; a body without a model field is given the default model
C17_FalsyModelRejected ==
    pc = "responded"
        => /\ (body.parses /\ (body.messages # "array" \/ body.model \in {"null", "empty"}))
                  => httpResponse.status = 400
           /\ StatusOfFailures

C17_Witness ==
    /\ pc = "responded"
    /\ body.messages = "array"
    /\ body.model = "empty"
    /\ httpResponse.status = 400
    /\ httpResponse.error = "Model selection is required"

\* C18: a query that fails, or returns no row, never fails the request: the
\* result carries success false and an error, and the handler answers 200
\* with toolUse and chartData null, whatever chart the assistant wrote
C18_FailedQueryAnswersWithoutChart ==
    (pc = "responded" /\ Len(content.queries) > 0
        /\ ~(queryResult.success /\ Len(results) > 0))
        => /\ httpResponse.status = 200
           /\ httpResponse.error = ""
           /\ httpResponse.toolUse.isNull
           /\ httpResponse.chartData.isNull
           /\ (~queryResult.success => queryResult.error # "")

C18_Witness ==
    /\ pc = "responded"
    /\ Len(content.queries) > 0
    /\ content.graphs = <<AssistantChart>>
    /\ ~queryResult.success
    /\ queryResult.error = "Failed to connect"
    /\ httpResponse.status = 200
    /\ httpResponse.toolUse.isNull
    /\ httpResponse.chartData.isNull

\* the replies generateOptimizedChart answers with the fallback
FailedDesigns(rows) ==
    {reply \in DesignReplies(rows) :
        reply.kind # "parsed" \/ ~HasRequiredFields(reply.chartConfig)}

\* C19: when the chart-design call fails, or its reply cannot be parsed or
\* lacks a required field, generateOptimizedChart of the rows does not throw:
\* it returns the fallback, whose data is the rows and whose chartConfig has
\* one entry per numeric column other than the x-axis column
C19_FallbackWhenDesignFails ==
    pc = AwaitChart
        => \A reply \in FailedDesigns(results) :
              LET generated == generateOptimizedChart(results, userQuery,
                                                      ChartTypeHint(content), reply)
              IN /\ ~generated.threw
                 /\ generated.chart.data = results
                 /\ Keys(generated.chart.chartConfig)
                       = SeriesFields(results[1], Get(generated.chart.config, "xAxisKey"))

----------------------------------------------------------------------------
(* getPool: the connection pool of the process                             *)

\* most calls of getPool in flight at once
MaxCallers == 3

\* most ConnectionPool objects one run constructs
MaxPools == 3

Callers == 1..MaxCallers

\* pool is undefined or null
NoPool == 0

\* a call of getPool: where it stands, the pool it constructed, the pool it
\* returned
NotCalling == [pc |-> "idle", mine |-> NoPool, returned |-> NoPool]

\* no pool raised an error yet
NoError == [by |-> NoPool, held |-> NoPool]

requestVars == <<pc, userQuery, sqlVars, chartVars, postVars>>

InitPool ==
    /\ pc = "process"
    /\ userQuery = ""
    /\ intent = NoIntent
    /\ sqlResult = NoSqlResult
    /\ built = ""
    /\ NoChartYet
    /\ NoRequestYet
    /\ pool = NoPool
    /\ callers = [c \in Callers |-> NotCalling]
    /\ constructed = 0
    /\ listening = {}
    /\ poolErrors = 0
    /\ lastError = NoError

\* getPool is called and finds the pool: it returns it
GetPoolFindsPool(c) ==
    /\ callers[c].pc = "idle"
    /\ pool # NoPool
    /\ callers' = [callers EXCEPT ![c] = [pc |-> "returned", mine |-> NoPool,
                                          returned |-> pool]]
    /\ UNCHANGED <<pool, constructed, listening, poolErrors, lastError, requestVars>>

\* getPool is called and finds no pool: it constructs one and awaits connect()
GetPoolConstructs(c) ==
    /\ callers[c].pc = "idle"
    /\ pool = NoPool
    /\ constructed < MaxPools
    /\ constructed' = constructed + 1
    /\ callers' = [callers EXCEPT ![c] = [pc |-> "connecting", mine |-> constructed',
                                          returned |-> NoPool]]
    /\ UNCHANGED <<pool, listening, poolErrors, lastError, requestVars>>

\* connect() resolved: the pool is assigned, given the error handler, returned
ConnectResolves(c) ==
    /\ callers[c].pc = "connecting"
    /\ pool' = callers[c].mine
    /\ listening' = listening \cup {pool'}
    /\ callers' = [callers EXCEPT ![c] = [pc |-> "returned", mine |-> callers[c].mine,
                                          returned |-> pool']]
    /\ UNCHANGED <<constructed, poolErrors, lastError, requestVars>>

\* connect() was rejected: getPool rejects and pool is left as it was
ConnectRejects(c) ==
    /\ callers[c].pc = "connecting"
    /\ callers' = [callers EXCEPT ![c] = [pc |-> "rejected", mine |-> callers[c].mine,
                                          returned |-> NoPool]]
    /\ UNCHANGED <<pool, constructed, listening, poolErrors, lastError, requestVars>>

\* a pool that carries the handler raises 'error': the handler sets pool to null
PoolError(p) ==
    /\ p \in listening
    /\ poolErrors < MaxPools
    /\ pool' = NoPool
    /\ poolErrors' = poolErrors + 1
    /\ lastError' = [by |-> p, held |-> pool]
    /\ UNCHANGED <<callers, constructed, listening, requestVars>>

\* the caller is done with the pool it got; a later request calls getPool again
NextRequest(c) ==
    /\ callers[c].pc = "returned"
    /\ callers' = [callers EXCEPT ![c] = NotCalling]
    /\ UNCHANGED <<pool, constructed, listening, poolErrors, lastError, requestVars>>

NextPool ==
    \/ \E c \in Callers : GetPoolFindsPool(c)
    \/ \E c \in Callers : GetPoolConstructs(c)
    \/ \E c \in Callers : ConnectResolves(c)
    \/ \E c \in Callers : ConnectRejects(c)
    \/ \E p \in 1..MaxPools : PoolError(p)
    \/ \E c \in Callers : NextRequest(c)

SpecPool == InitPool /\ [][NextPool]_vars

\* C20: while no pool-level error occurred and no connect() was rejected, at
\* most one ConnectionPool is constructed, whatever the interleaving of the
\* calls of getPool, and every call that returned returned that pool
C20_PoolCreatedOnce ==
    (poolErrors = 0 /\ \A c \in Callers : callers[c].pc # "rejected")
        => /\ constructed <= 1
           /\ \A c, d \in Callers :
                 (callers[c].pc = "returned" /\ callers[d].pc = "returned")
                     => callers[c].returned = callers[d].returned

\* C30: the error handler of a pool sets the shared reference to null only when the
\* reference is that pool, never while it is another pool, in every interleaving of
\* the calls of getPool and the error events; and a call of getPool that returned
\* returned a pool
C30_ErrorDiscardsOwnPoolOnly ==
    /\ lastError.held # NoPool => lastError.held = lastError.by
    /\ \A c \in Callers : callers[c].pc = "returned" => callers[c].returned # NoPool

====
